---- MODULE Spec2Model ----
(***************************************************************************)
(* Model of the per-user ordering pipeline of main.py: the aiogram router  *)
(* (handlers in registration order), the FSM storage (state + data bag),   *)
(* the Redis store (menu, user binding, rate-limit marker, last order,     *)
(* statistics, customer profile) and the checkout of finalize_order.       *)
(***************************************************************************)
EXTENDS Integers, Sequences, FiniteSets, TLC

VARIABLES
    fsm_state,    \* FSMContext state of each user ("none" = no state)
    fsm_data,     \* FSMContext data bag of each user
    user_cafe,    \* Redis user:{id}:cafe_id ("" = key absent)
    redis_menu,   \* Redis hash cafe:{id}:menu (empty function = key absent)
    rate_limit,   \* Redis rate_limit:{id}, written with SETEX
    last_order,   \* Redis last_order:{cafe}:{user}, the order snapshot
    stats,        \* Redis stats:{cafe}:... counters
    customers,    \* Redis set customers:{cafe}:set
    profile,      \* Redis hash customer:{cafe}:{user}:profile
    drinks,       \* Redis hash customer:{cafe}:{user}:drinks
    last_seen,    \* Redis last_seen:{cafe}:{user}, as a calendar day (-1 = absent)
    admin_inbox,  \* messages notify_admin delivered to each cafe's admin
    staff_inbox,  \* messages notify_admin delivered to each cafe's staff group
    staff_group,  \* Redis cafe:{id}:staff_group_id is set
    fault,        \* the operations that raise at present
    outreach,     \* win-back messages delivered, as (cafe, user, time)
    loop_pc,      \* where smart_return_loop is: "sweep", "sleep" or "dead"
    now,          \* time.time(), in whole seconds
    msk_hour,     \* get_moscow_time().hour
    msk_day,      \* get_moscow_time().date(), as a day number
    reply,        \* the last message.answer each user received
    task          \* finalize_order tasks running in the background

vars == <<fsm_state, fsm_data, user_cafe, redis_menu, rate_limit, last_order,
          stats, customers, profile, drinks, last_seen, admin_inbox, staff_inbox,
          staff_group, fault, outreach, loop_pc, now, msk_hour, msk_day, reply, task>>

\* What a checkout records.
order_vars == <<rate_limit, last_order, stats, customers, profile, drinks, admin_inbox,
                staff_inbox>>

clock_vars == <<now, msk_hour, msk_day>>

\* What no client handler writes: the staff binding, the failing operations,
\* the win-back messages and the place of the win-back loop.
world_vars == <<staff_group, fault, outreach, loop_pc>>

(***************************************************************************)
(* Bounds of the model.                                                    *)
(***************************************************************************)
MaxTime == 4        \* the clock stops advancing here
MaxOrders == 2      \* successful checkouts explored per cafe
MaxUnits == 3       \* drinks in one cart, Spec
MaxRateUnits == 2   \* drinks in one cart, SpecRate and SpecRace
MaxCartUnits == 5   \* drinks in one cart, SpecCart
MaxFlowUnits == 2   \* drinks in one cart, SpecFlow
MaxDay == 2         \* the calendar stops advancing here
MaxJumps == 7       \* the win-back clock stops after this many jumps
MaxWakes == 4       \* the win-back loop stops waking this long after the customers are due

(***************************************************************************)
(* Program constants.                                                      *)
(***************************************************************************)
DEFAULT_WORK_START == 9
DEFAULT_WORK_END == 21
QTY_MIN == 1
QTY_MAX == 5
DEFAULT_RETURN_CYCLE_DAYS == 7
RETURN_COOLDOWN_DAYS == 14
RETURN_SEND_FROM_HOUR == 10
RETURN_SEND_TO_HOUR == 20
DaySeconds == 86400
RETURN_CHECK_EVERY_SECONDS == 21600

Users == {"u1", "u2"}
CafeIds == {"cafe_1", "cafe_2"}
Drinks == {"Latte", "Mocha"}
Prices == {200, 300}
Hours == {8, 9, 21}
Tasks == {"t1", "t2"}
\* Hours before, at the start of and at the end of the win-back send window,
\* all of them opening hours.
SweepHours == {9, 10, 20}
\* The operations that can raise: the two sends of notify_admin, the counter
\* writes of finalize_order and the pipeline of customer_mark_order.
FaultSets ==
    {{}, {"admin_send"}, {"staff_send"}, {"admin_send", "staff_send"},
     {"stats_write"}, {"profile_write"}}
\* What bot.send_message to a customer does: it delivers, it raises because
\* the recipient is unreachable, or it raises for a passing reason.
SendOutcomes == {"ok", "undeliverable", "transient"}

\* The tenant directory read from the configuration file: two cafes with
\* the same menu, their own features.rate_limit_seconds and the default
\* hours.  The file of cafe_2 also switches ordering off in its features,
\* a field no handler reads.
CAFES ==
    [cafe_1 |-> [menu |-> [d \in Drinks |-> IF d = "Latte" THEN 200 ELSE 250],
                 rate_limit_seconds |-> 2,
                 work_start |-> DEFAULT_WORK_START,
                 work_end |-> DEFAULT_WORK_END,
                 orders_enabled |-> TRUE,
                 admin_id |-> "admin1"],
     cafe_2 |-> [menu |-> [d \in Drinks |-> IF d = "Latte" THEN 200 ELSE 250],
                 rate_limit_seconds |-> 3,
                 work_start |-> DEFAULT_WORK_START,
                 work_end |-> DEFAULT_WORK_END,
                 orders_enabled |-> FALSE,
                 admin_id |-> "admin2"]]

DEFAULT_CAFE_ID == "cafe_1"

(***************************************************************************)
(* Button labels and the other texts a user can send.                      *)
(***************************************************************************)
BTN_BOOKING == "BTN_BOOKING"
BTN_CART == "BTN_CART"
BTN_CHECKOUT == "BTN_CHECKOUT"
BTN_CLEAR_CART == "BTN_CLEAR_CART"
BTN_CANCEL_ORDER == "BTN_CANCEL_ORDER"
BTN_EDIT_CART == "BTN_EDIT_CART"
BTN_CANCEL == "BTN_CANCEL"
BTN_CONFIRM == "BTN_CONFIRM"
BTN_READY_NOW == "BTN_READY_NOW"
BTN_READY_20 == "BTN_READY_20"
BTN_REPEAT_LAST == "BTN_REPEAT_LAST"
BTN_REPEAT_NO == "BTN_REPEAT_NO"
CART_ACT_PLUS == "CART_ACT_PLUS"
CART_ACT_MINUS == "CART_ACT_MINUS"
CART_ACT_DEL == "CART_ACT_DEL"
CART_ACT_DONE == "CART_ACT_DONE"

\* Texts whose first character is a digit, with that digit; every other text
\* makes int(text[0]) raise.
QtyTexts == {"0", "1", "2", "3", "4", "5", "6", "12"}
\* Texts that are neither a button nor a drink nor a quantity.
OtherTexts == {"hello"}
\* Texts sent while booking: a date and time that exist, a date that matches
\* the pattern but does not exist, a number of guests in and out of 1..10.
BookingTexts == {"15.02 19:00", "31.02 19:00", "2", "12", "-"}

(***************************************************************************)
(* Python dict, as the sequence of its (key, value) pairs in insertion     *)
(* order.                                                                  *)
(***************************************************************************)
EmptyDict == << >>

DKeys(m) == {m[i].k : i \in DOMAIN m}

DGet(m, key, dflt) ==
    IF key \in DKeys(m)
    THEN m[CHOOSE i \in DOMAIN m : m[i].k = key].v
    ELSE dflt

DSet(m, key, val) ==
    IF key \in DKeys(m)
    THEN [i \in DOMAIN m |-> IF m[i].k = key THEN [k |-> key, v |-> val] ELSE m[i]]
    ELSE Append(m, [k |-> key, v |-> val])

DPop(m, key) == SelectSeq(m, LAMBDA e : e.k # key)

\* A Redis key space or hash read as an unordered mapping: a function whose
\* domain is the set of keys that exist.
NoKeys == [x \in {} |-> 0]

FGet(f, key, dflt) == IF key \in DOMAIN f THEN f[key] ELSE dflt

FIncr(f, key, n) ==
    IF key \in DOMAIN f
    THEN [f EXCEPT ![key] = @ + n]
    ELSE [x \in DOMAIN f \cup {key} |-> IF x = key THEN n ELSE f[x]]

FSet(f, key, val) == [x \in DOMAIN f \cup {key} |-> IF x = key THEN val ELSE f[x]]

FDel(f, key) == [x \in DOMAIN f \ {key} |-> f[x]]

(***************************************************************************)
(* Cafe helpers.                                                           *)
(***************************************************************************)
cafe_or_default(cafe_id) ==
    IF cafe_id # "" /\ cafe_id \in CafeIds THEN CAFES[cafe_id] ELSE CAFES[DEFAULT_CAFE_ID]

cafe_hours(cafe) == <<cafe.work_start, cafe.work_end>>

cafe_rate_limit_seconds(cafe) == cafe.rate_limit_seconds

cafe_open(cafe) == cafe_hours(cafe)[1] <= msk_hour /\ msk_hour < cafe_hours(cafe)[2]

cafe_admin_id_from_json(cafe) == cafe.admin_id

is_cafe_admin(user_id, cafe_id) == cafe_admin_id_from_json(cafe_or_default(cafe_id)) = user_id

\* str(await r.get(k_user_cafe(uid)) or DEFAULT_CAFE_ID)
cafe_id_of(u) == IF user_cafe[u] # "" THEN user_cafe[u] ELSE DEFAULT_CAFE_ID

(***************************************************************************)
(* Menu per cafe.  get_menu returns the Redis hash when it has fields and  *)
(* otherwise the configured menu, which it then writes to Redis.           *)
(***************************************************************************)
get_menu(cafe_id) ==
    IF DOMAIN redis_menu[cafe_id] # {}
    THEN redis_menu[cafe_id]
    ELSE cafe_or_default(cafe_id).menu

redis_menu_after_get(cafe_id) == [redis_menu EXCEPT ![cafe_id] = get_menu(cafe_id)]

(***************************************************************************)
(* Cart helpers.                                                           *)
(***************************************************************************)
get_cart(data) == data.cart

\* Mutation: the total priced from the configured menu.
RECURSIVE cart_total_config_menu(_, _)
cart_total_config_menu(cart, menu) ==
    IF cart = << >>
    THEN 0
    ELSE FGet(CAFES[DEFAULT_CAFE_ID].menu, Head(cart).k, 0) * Head(cart).v
         + cart_total_config_menu(Tail(cart), menu)

RECURSIVE cart_total(_, _)
cart_total(cart, menu) ==
    IF cart = << >>
    THEN 0
    ELSE FGet(menu, Head(cart).k, 0) * Head(cart).v + cart_total(Tail(cart), menu)

RECURSIVE cart_units(_)
cart_units(cart) ==
    IF cart = << >> THEN 0 ELSE Head(cart).v + cart_units(Tail(cart))

(***************************************************************************)
(* Values of the store and of the FSM storage.                             *)
(***************************************************************************)
NoSnapshot == [present |-> FALSE, cart |-> EmptyDict, total |-> 0, ts |-> 0]

NoMarker == [present |-> FALSE, ts |-> 0, expires |-> 0]

NoProfile ==
    [present |-> FALSE, first_order_ts |-> 0, offers_opt_out |-> 0,
     last_trigger_ts |-> 0, last_order_ts |-> 0, last_order_sum |-> 0,
     last_drink |-> "", total_orders |-> 0, total_spent |-> 0]

NoStats ==
    [total_orders |-> 0, total_revenue |-> 0, drink_cnt |-> NoKeys, drink_rev |-> NoKeys]

\* FSMContext.clear(): no state, empty data bag.
EmptyData ==
    [cart |-> EmptyDict, current_drink |-> "", edit_item |-> "",
     repeat_offer_snapshot |-> NoSnapshot, cafe_id |-> "",
     booking_dt |-> "", booking_people |-> 0]

NoReply == [h |-> "", text |-> "", kind |-> "", total |-> 0]

\* A finalize_order task: its position and its local variables.
IdleTask ==
    [pc |-> "idle", user |-> "", text |-> "", cafe_id |-> "", menu |-> NoKeys,
     cart |-> EmptyDict, rl |-> 0, passed |-> FALSE, total |-> 0, ts |-> 0, outcome |-> ""]

Answer(h, text, kind, total) == [h |-> h, text |-> text, kind |-> kind, total |-> total]

Init ==
    /\ fsm_state = [u \in Users |-> "none"]
    /\ fsm_data = [u \in Users |-> EmptyData]
    /\ user_cafe = [u \in Users |-> ""]
    /\ redis_menu = [c \in CafeIds |-> NoKeys]
    /\ rate_limit = [u \in Users |-> NoMarker]
    /\ last_order = [c \in CafeIds |-> [u \in Users |-> NoSnapshot]]
    /\ stats = [c \in CafeIds |-> NoStats]
    /\ customers = [c \in CafeIds |-> {}]
    /\ profile = [c \in CafeIds |-> [u \in Users |-> NoProfile]]
    /\ drinks = [c \in CafeIds |-> [u \in Users |-> EmptyDict]]
    /\ last_seen = [c \in CafeIds |-> [u \in Users |-> -1]]
    /\ admin_inbox = [c \in CafeIds |-> 0]
    /\ staff_inbox = [c \in CafeIds |-> 0]
    /\ staff_group = [c \in CafeIds |-> FALSE]
    /\ fault = {}
    /\ outreach = {}
    /\ loop_pc = "sweep"
    /\ now = 0
    /\ msk_hour = DEFAULT_WORK_START
    /\ msk_day = 0
    /\ reply = [u \in Users |-> NoReply]
    /\ task = [t \in Tasks |-> IdleTask]

(***************************************************************************)
(* The router: the first handler, in registration order, whose filter      *)
(* matches the text and the user's FSM state.                              *)
(***************************************************************************)
route(st, text) ==
    IF text = BTN_REPEAT_NO THEN "repeat_no"
    ELSE IF text = BTN_REPEAT_LAST THEN "repeat_last"
    ELSE IF text = BTN_CART THEN "cart_button"
    ELSE IF text = BTN_CLEAR_CART THEN "clear_cart"
    ELSE IF text = BTN_CANCEL_ORDER THEN "cancel_order"
    ELSE IF text = BTN_EDIT_CART THEN "edit_cart"
    ELSE IF st = "cart_edit_pick_item" THEN "pick_item_to_edit"
    ELSE IF st = "cart_edit_pick_action" THEN "cart_edit_action"
    ELSE IF st = "waiting_for_quantity" THEN "process_quantity"
    ELSE IF text = BTN_CHECKOUT THEN "checkout"
    ELSE IF st = "waiting_for_confirmation" THEN "confirm_order"
    ELSE IF st = "waiting_for_ready_time" THEN "ready_time"
    ELSE IF text = BTN_BOOKING THEN "booking_start"
    ELSE IF st = "waiting_for_datetime" THEN "booking_datetime"
    ELSE IF st = "waiting_for_people" THEN "booking_people"
    ELSE IF st = "waiting_for_comment" THEN "booking_finish"
    ELSE "any_text"

\* What a handler leaves behind for its user: the FSM state and data, the
\* answer, and the menu hash when the handler called get_menu.
Respond(u, st, data, ans, read_menu) ==
    /\ fsm_state' = [fsm_state EXCEPT ![u] = st]
    /\ fsm_data' = [fsm_data EXCEPT ![u] = data]
    /\ reply' = [reply EXCEPT ![u] = ans]
    /\ redis_menu' = IF read_menu THEN redis_menu_after_get(cafe_id_of(u)) ELSE redis_menu

(***************************************************************************)
(* Client: cart show / clear / cancel.                                     *)
(***************************************************************************)
\* Mutation: the cart is shown without moving to the cart view.
show_cart_stays(u, h, text, data) ==
    Respond(u, fsm_state[u], [data EXCEPT !.cart = get_cart(data)],
            Answer(h, text, "cart",
                   cart_total(get_cart(data), get_menu(cafe_id_of(u)))),
            TRUE)

show_cart(u, h, text, data) ==
    Respond(u, "cart_view", [data EXCEPT !.cart = get_cart(data)],
            Answer(h, text, "cart",
                   cart_total(get_cart(data), get_menu(cafe_id_of(u)))),
            TRUE)

cart_button(u, text) ==
    /\ route(fsm_state[u], text) = "cart_button"
    /\ IF ~cafe_open(cafe_or_default(cafe_id_of(u)))
       THEN Respond(u, fsm_state[u], fsm_data[u], Answer("cart_button", text, "closed", 0), TRUE)
       ELSE show_cart(u, "cart_button", text, fsm_data[u])
    /\ UNCHANGED <<user_cafe, order_vars, last_seen, clock_vars, world_vars, task>>

\* Mutation: the cart is emptied and the state is left as it is.
clear_cart_stays(u, text) ==
    /\ route(fsm_state[u], text) = "clear_cart"
    /\ Respond(u, fsm_state[u], [fsm_data[u] EXCEPT !.cart = EmptyDict],
               Answer("clear_cart", text, "cart", 0), TRUE)
    /\ UNCHANGED <<user_cafe, order_vars, last_seen, clock_vars, world_vars, task>>

clear_cart(u, text) ==
    /\ route(fsm_state[u], text) = "clear_cart"
    /\ show_cart(u, "clear_cart", text, [fsm_data[u] EXCEPT !.cart = EmptyDict])
    /\ UNCHANGED <<user_cafe, order_vars, last_seen, clock_vars, world_vars, task>>

cancel_order(u, text) ==
    /\ route(fsm_state[u], text) = "cancel_order"
    /\ Respond(u, "none", EmptyData, Answer("cancel_order", text, "cancelled", 0), TRUE)
    /\ UNCHANGED <<user_cafe, order_vars, last_seen, clock_vars, world_vars, task>>

(***************************************************************************)
(* Client: cart edit.                                                      *)
(***************************************************************************)
edit_cart(u, text) ==
    /\ route(fsm_state[u], text) = "edit_cart"
    /\ IF get_cart(fsm_data[u]) = EmptyDict
       THEN Respond(u, fsm_state[u], fsm_data[u], Answer("edit_cart", text, "cart_empty", 0), TRUE)
       ELSE Respond(u, "cart_edit_pick_item", fsm_data[u],
                    Answer("edit_cart", text, "pick_item", 0), FALSE)
    /\ UNCHANGED <<user_cafe, order_vars, last_seen, clock_vars, world_vars, task>>

pick_item_to_edit(u, text) ==
    /\ route(fsm_state[u], text) = "pick_item_to_edit"
    /\ IF text \in {BTN_CANCEL, BTN_CART}
       THEN show_cart(u, "pick_item_to_edit", text, fsm_data[u])
       ELSE IF text \notin DKeys(get_cart(fsm_data[u]))
       THEN Respond(u, fsm_state[u], fsm_data[u],
                    Answer("pick_item_to_edit", text, "pick_item", 0), FALSE)
       ELSE Respond(u, "cart_edit_pick_action", [fsm_data[u] EXCEPT !.edit_item = text],
                    Answer("pick_item_to_edit", text, "pick_action", 0), FALSE)
    /\ UNCHANGED <<user_cafe, order_vars, last_seen, clock_vars, world_vars, task>>

\* Mutation: -1 keeps an item whose quantity reaches zero.
cart_after_action_keeps_zero(cart, item, action) ==
    IF action = CART_ACT_PLUS
    THEN DSet(cart, item, DGet(cart, item, 0) + 1)
    ELSE IF action = CART_ACT_MINUS
    THEN IF DGet(cart, item, 0) - 1 < 0
         THEN DPop(cart, item)
         ELSE DSet(cart, item, DGet(cart, item, 0) - 1)
    ELSE DPop(cart, item)

\* Mutation: -1 removes an item whose quantity reaches one.
cart_after_action_drops_one(cart, item, action) ==
    IF action = CART_ACT_PLUS
    THEN DSet(cart, item, DGet(cart, item, 0) + 1)
    ELSE IF action = CART_ACT_MINUS
    THEN IF DGet(cart, item, 0) - 1 <= 1
         THEN DPop(cart, item)
         ELSE DSet(cart, item, DGet(cart, item, 0) - 1)
    ELSE DPop(cart, item)

\* Mutation: delete takes one unit off, as -1 does.
cart_after_action_del_one(cart, item, action) ==
    IF action = CART_ACT_PLUS
    THEN DSet(cart, item, DGet(cart, item, 0) + 1)
    ELSE IF DGet(cart, item, 0) - 1 <= 0
    THEN DPop(cart, item)
    ELSE DSet(cart, item, DGet(cart, item, 0) - 1)

\* The cart after +1, -1 or delete on an item that is in it.
cart_after_action(cart, item, action) ==
    IF action = CART_ACT_PLUS
    THEN DSet(cart, item, DGet(cart, item, 0) + 1)
    ELSE IF action = CART_ACT_MINUS
    THEN IF DGet(cart, item, 0) - 1 <= 0
         THEN DPop(cart, item)
         ELSE DSet(cart, item, DGet(cart, item, 0) - 1)
    ELSE DPop(cart, item)

cart_edit_action(u, text, max_units) ==
    /\ route(fsm_state[u], text) = "cart_edit_action"
    /\ LET data == fsm_data[u]
           cart == get_cart(data)
           item == data.edit_item
       IN IF text = BTN_CANCEL \/ text = CART_ACT_DONE
          THEN show_cart(u, "cart_edit_action", text, data)
          ELSE IF item = "" \/ item \notin DKeys(cart)
          THEN show_cart(u, "cart_edit_action", text, data)
          ELSE IF text \in {CART_ACT_PLUS, CART_ACT_MINUS, CART_ACT_DEL}
          THEN /\ cart_units(cart_after_action(cart, item, text)) <= max_units
               /\ show_cart(u, "cart_edit_action", text,
                            [data EXCEPT !.cart = cart_after_action(cart, item, text)])
          ELSE Respond(u, fsm_state[u], data,
                       Answer("cart_edit_action", text, "pick_action", 0), FALSE)
    /\ UNCHANGED <<user_cafe, order_vars, last_seen, clock_vars, world_vars, task>>

(***************************************************************************)
(* Client: add item.                                                       *)
(***************************************************************************)
start_add_item(u, text, menu, drink) ==
    IF drink \notin DOMAIN menu
    THEN Respond(u, fsm_state[u], fsm_data[u], Answer("start_add_item", text, "item_gone", 0), TRUE)
    ELSE Respond(u, "waiting_for_quantity",
                 [fsm_data[u] EXCEPT !.current_drink = drink, !.cart = get_cart(fsm_data[u])],
                 Answer("start_add_item", text, "how_many", 0), TRUE)

\* int((message.text or "")[0]): the first character as a number, -1 when
\* the conversion raises.
first_char_int(text) ==
    CASE text = "0" -> 0
      [] text = "1" -> 1
      [] text = "2" -> 2
      [] text = "3" -> 3
      [] text = "4" -> 4
      [] text = "5" -> 5
      [] text = "6" -> 6
      [] text = "12" -> 1
      [] OTHER -> -1

\* Mutation: the quantity replaces the entry instead of being added to it.
process_quantity_overwrites(u, text, max_units) ==
    /\ route(fsm_state[u], text) = "process_quantity"
    /\ LET menu == get_menu(cafe_id_of(u))
           data == fsm_data[u]
           qty == first_char_int(text)
           drink == data.current_drink
           cart == get_cart(data)
           added == DSet(cart, drink, qty)
       IN IF text = BTN_CANCEL
          THEN Respond(u, fsm_state[u], data, Answer("process_quantity", text, "ok", 0), TRUE)
          ELSE IF ~(QTY_MIN <= qty /\ qty <= QTY_MAX)
          THEN Respond(u, fsm_state[u], data, Answer("process_quantity", text, "press_1_5", 0), TRUE)
          ELSE IF drink = "" \/ drink \notin DOMAIN menu
          THEN Respond(u, "none", EmptyData, Answer("process_quantity", text, "error", 0), TRUE)
          ELSE /\ cart_units(added) <= max_units
               /\ Respond(u, "cart_view", [data EXCEPT !.cart = added],
                          Answer("process_quantity", text, "added", cart_total(added, menu)), TRUE)
    /\ UNCHANGED <<user_cafe, order_vars, last_seen, clock_vars, world_vars, task>>

process_quantity(u, text, max_units) ==
    /\ route(fsm_state[u], text) = "process_quantity"
    /\ LET menu == get_menu(cafe_id_of(u))
           data == fsm_data[u]
           qty == first_char_int(text)
           drink == data.current_drink
           cart == get_cart(data)
           added == DSet(cart, drink, DGet(cart, drink, 0) + qty)
       IN IF text = BTN_CANCEL
          THEN Respond(u, fsm_state[u], data, Answer("process_quantity", text, "ok", 0), TRUE)
          ELSE IF ~(QTY_MIN <= qty /\ qty <= QTY_MAX)
          THEN Respond(u, fsm_state[u], data, Answer("process_quantity", text, "press_1_5", 0), TRUE)
          ELSE IF drink = "" \/ drink \notin DOMAIN menu
          THEN Respond(u, "none", EmptyData, Answer("process_quantity", text, "error", 0), TRUE)
          ELSE /\ cart_units(added) <= max_units
               /\ Respond(u, "cart_view", [data EXCEPT !.cart = added],
                          Answer("process_quantity", text, "added", cart_total(added, menu)), TRUE)
    /\ UNCHANGED <<user_cafe, order_vars, last_seen, clock_vars, world_vars, task>>

(***************************************************************************)
(* Client: checkout.                                                       *)
(***************************************************************************)
\* Mutation: the checkout refused for closure drops the conversation.
checkout_closed_resets(u, text) ==
    /\ route(fsm_state[u], text) = "checkout"
    /\ LET menu == get_menu(cafe_id_of(u))
           cart == get_cart(fsm_data[u])
       IN IF ~cafe_open(cafe_or_default(cafe_id_of(u)))
          THEN Respond(u, "none", EmptyData, Answer("checkout", text, "closed", 0), TRUE)
          ELSE IF cart = EmptyDict
          THEN Respond(u, fsm_state[u], fsm_data[u], Answer("checkout", text, "cart_empty", 0), TRUE)
          ELSE Respond(u, "waiting_for_confirmation", fsm_data[u],
                       Answer("checkout", text, "confirm", cart_total(cart, menu)), TRUE)
    /\ UNCHANGED <<user_cafe, order_vars, last_seen, clock_vars, world_vars, task>>

checkout(u, text) ==
    /\ route(fsm_state[u], text) = "checkout"
    /\ LET menu == get_menu(cafe_id_of(u))
           cart == get_cart(fsm_data[u])
       IN IF ~cafe_open(cafe_or_default(cafe_id_of(u)))
          THEN Respond(u, fsm_state[u], fsm_data[u], Answer("checkout", text, "closed", 0), TRUE)
          ELSE IF cart = EmptyDict
          THEN Respond(u, fsm_state[u], fsm_data[u], Answer("checkout", text, "cart_empty", 0), TRUE)
          ELSE Respond(u, "waiting_for_confirmation", fsm_data[u],
                       Answer("checkout", text, "confirm", cart_total(cart, menu)), TRUE)
    /\ UNCHANGED <<user_cafe, order_vars, last_seen, clock_vars, world_vars, task>>

\* Mutation: any text advances to the ready-time step.
confirm_order_any_text(u, text) ==
    /\ route(fsm_state[u], text) = "confirm_order"
    /\ IF text = BTN_CANCEL_ORDER
       THEN Respond(u, "none", EmptyData, Answer("confirm_order", text, "cancelled", 0), TRUE)
       ELSE IF text = BTN_CART
       THEN show_cart(u, "confirm_order", text, fsm_data[u])
       ELSE IF text # BTN_CONFIRM
       THEN Respond(u, "waiting_for_ready_time", fsm_data[u],
                    Answer("confirm_order", text, "when", 0), TRUE)
       ELSE Respond(u, "waiting_for_ready_time", fsm_data[u],
                    Answer("confirm_order", text, "when", 0), TRUE)
    /\ UNCHANGED <<user_cafe, order_vars, last_seen, clock_vars, world_vars, task>>

confirm_order(u, text) ==
    /\ route(fsm_state[u], text) = "confirm_order"
    /\ IF text = BTN_CANCEL_ORDER
       THEN Respond(u, "none", EmptyData, Answer("confirm_order", text, "cancelled", 0), TRUE)
       ELSE IF text = BTN_CART
       THEN show_cart(u, "confirm_order", text, fsm_data[u])
       ELSE IF text # BTN_CONFIRM
       THEN Respond(u, fsm_state[u], fsm_data[u], Answer("confirm_order", text, "press_confirm", 0), TRUE)
       ELSE Respond(u, "waiting_for_ready_time", fsm_data[u],
                    Answer("confirm_order", text, "when", 0), TRUE)
    /\ UNCHANGED <<user_cafe, order_vars, last_seen, clock_vars, world_vars, task>>

(***************************************************************************)
(* finalize_order, piece by piece.                                         *)
(***************************************************************************)
\* r.get(k_rate_limit(user_id)): the marker, unless its SETEX time has run out.
rate_limit_get(u) == IF rate_limit[u].present /\ now < rate_limit[u].expires
                     THEN rate_limit[u]
                     ELSE NoMarker

\* last_order and time.time() - float(last_order) < rl
is_rate_limited(marker, t, rl) == marker.present /\ t - marker.ts < rl

\* r.setex(k_rate_limit(user_id), rl, str(time.time()))
marker_written(t, rl) == [present |-> TRUE, ts |-> t, expires |-> t + rl]

order_snapshot(cart, total, t) == [present |-> TRUE, cart |-> cart, total |-> total, ts |-> t]

RECURSIVE drink_stats_after(_, _, _)
drink_stats_after(st, cart, menu) ==
    IF cart = << >>
    THEN st
    ELSE drink_stats_after(
             [st EXCEPT !.drink_cnt = FIncr(@, Head(cart).k, Head(cart).v),
                        !.drink_rev = FIncr(@, Head(cart).k,
                                            Head(cart).v * FGet(menu, Head(cart).k, 0))],
             Tail(cart), menu)

stats_after(st, cart, menu, total) ==
    drink_stats_after([st EXCEPT !.total_orders = @ + 1, !.total_revenue = @ + total],
                      cart, menu)

\* Mutation: the outreach fields are written with hset, not hsetnx.
profile_after_resets_outreach(p, cart, total, t) ==
    [present |-> TRUE,
     first_order_ts |-> IF p.present THEN p.first_order_ts ELSE t,
     offers_opt_out |-> 0,
     last_trigger_ts |-> 0,
     last_order_ts |-> t,
     last_order_sum |-> total,
     last_drink |-> IF cart = << >> THEN "" ELSE Head(cart).k,
     total_orders |-> p.total_orders + 1,
     total_spent |-> p.total_spent + total]

profile_after(p, cart, total, t) ==
    [present |-> TRUE,
     first_order_ts |-> IF p.present THEN p.first_order_ts ELSE t,
     offers_opt_out |-> IF p.present THEN p.offers_opt_out ELSE 0,
     last_trigger_ts |-> IF p.present THEN p.last_trigger_ts ELSE 0,
     last_order_ts |-> t,
     last_order_sum |-> total,
     last_drink |-> IF cart = << >> THEN "" ELSE Head(cart).k,
     total_orders |-> p.total_orders + 1,
     total_spent |-> p.total_spent + total]

RECURSIVE drinks_after(_, _)
drinks_after(dr, cart) ==
    IF cart = << >>
    THEN dr
    ELSE drinks_after(DSet(dr, Head(cart).k, DGet(dr, Head(cart).k, 0) + Head(cart).v),
                      Tail(cart))

\* Mutation: total_spent is set to the order's total, not incremented by it.
customer_mark_order_sets_spent(cafe_id, u, cart, total, t) ==
    /\ customers' = [customers EXCEPT ![cafe_id] = @ \cup {u}]
    /\ profile' = [profile EXCEPT ![cafe_id][u] =
                      [profile_after(@, cart, total, t) EXCEPT !.total_spent = total]]
    /\ drinks' = [drinks EXCEPT ![cafe_id][u] = drinks_after(@, cart)]

\* customer_mark_order: one pipeline.
customer_mark_order(cafe_id, u, cart, total, t) ==
    /\ customers' = [customers EXCEPT ![cafe_id] = @ \cup {u}]
    /\ profile' = [profile EXCEPT ![cafe_id][u] = profile_after(@, cart, total, t)]
    /\ drinks' = [drinks EXCEPT ![cafe_id][u] = drinks_after(@, cart)]

\* Each of the two sends is tried on its own; a send that raises is dropped.
\* Mutation: the two sends share one try.
notify_admin_one_try(cafe_id) ==
    /\ admin_inbox' = IF /\ cafe_admin_id_from_json(cafe_or_default(cafe_id)) # ""
                         /\ "admin_send" \notin fault
                      THEN [admin_inbox EXCEPT ![cafe_id] = @ + 1] ELSE admin_inbox
    /\ staff_inbox' = IF staff_group[cafe_id] /\ fault \cap {"admin_send", "staff_send"} = {}
                      THEN [staff_inbox EXCEPT ![cafe_id] = @ + 1] ELSE staff_inbox

notify_admin(cafe_id) ==
    /\ admin_inbox' = IF /\ cafe_admin_id_from_json(cafe_or_default(cafe_id)) # ""
                         /\ "admin_send" \notin fault
                      THEN [admin_inbox EXCEPT ![cafe_id] = @ + 1]
                      ELSE admin_inbox
    /\ staff_inbox' = IF staff_group[cafe_id] /\ "staff_send" \notin fault
                      THEN [staff_inbox EXCEPT ![cafe_id] = @ + 1]
                      ELSE staff_inbox

\* Mutation: the rejected checkout still notifies the admin.
finalize_rejected_notifies(u, text) ==
    /\ Respond(u, "none", EmptyData, Answer("finalize_order", text, "rate_limited", 0), TRUE)
    /\ notify_admin(cafe_id_of(u))
    /\ UNCHANGED <<rate_limit, last_order, stats, customers, profile, drinks>>

\* Mutation: the rejected checkout keeps the conversation.
finalize_rejected_keeps_cart(u, text) ==
    /\ Respond(u, fsm_state[u], fsm_data[u],
               Answer("finalize_order", text, "rate_limited", 0), TRUE)
    /\ UNCHANGED order_vars

\* The branch taken when the marker is younger than the window.
finalize_rejected(u, text) ==
    /\ Respond(u, "none", EmptyData, Answer("finalize_order", text, "rate_limited", 0), TRUE)
    /\ UNCHANGED order_vars

\* Mutation: a stored snapshot is kept, only the first order is stored.
finalize_accepted_keeps_snapshot(u, text, cafe_id, cart, menu, rl) ==
    LET total == cart_total(cart, menu)
    IN /\ stats[cafe_id].total_orders < MaxOrders
       /\ rate_limit' = [rate_limit EXCEPT ![u] = marker_written(now, rl)]
       /\ last_order' = [last_order EXCEPT ![cafe_id][u] =
                           IF @.present THEN @ ELSE order_snapshot(cart, total, now)]
       /\ IF "stats_write" \in fault
          THEN /\ UNCHANGED <<stats, customers, profile, drinks, admin_inbox, staff_inbox>>
               /\ Respond(u, fsm_state[u], fsm_data[u],
                          Answer("finalize_order", text, "no_answer", 0), TRUE)
          ELSE /\ stats' = [stats EXCEPT ![cafe_id] = stats_after(@, cart, menu, total)]
               /\ IF "profile_write" \in fault
                  THEN UNCHANGED <<customers, profile, drinks>>
                  ELSE customer_mark_order(cafe_id, u, cart, total, now)
               /\ notify_admin(cafe_id)
               /\ Respond(u, "none", EmptyData,
                          Answer("finalize_order", text, "accepted", total), TRUE)

\* The branch taken when the rate check passes.  A counter write that raises
\* ends the handler there: the marker and the snapshot are written, nothing
\* is answered and the conversation is not cleared.  customer_mark_order is
\* inside try/except: when it raises, the handler goes on.
finalize_accepted(u, text, cafe_id, cart, menu, rl) ==
    LET total == cart_total(cart, menu)
    IN /\ stats[cafe_id].total_orders < MaxOrders
       /\ rate_limit' = [rate_limit EXCEPT ![u] = marker_written(now, rl)]
       /\ last_order' = [last_order EXCEPT ![cafe_id][u] = order_snapshot(cart, total, now)]
       /\ IF "stats_write" \in fault
          THEN /\ UNCHANGED <<stats, customers, profile, drinks, admin_inbox, staff_inbox>>
               /\ Respond(u, fsm_state[u], fsm_data[u],
                          Answer("finalize_order", text, "no_answer", 0), TRUE)
          ELSE /\ stats' = [stats EXCEPT ![cafe_id] = stats_after(@, cart, menu, total)]
               /\ IF "profile_write" \in fault
                  THEN UNCHANGED <<customers, profile, drinks>>
                  ELSE customer_mark_order(cafe_id, u, cart, total, now)
               /\ notify_admin(cafe_id)
               /\ Respond(u, "none", EmptyData,
                          Answer("finalize_order", text, "accepted", total), TRUE)

finalize_order(u, text, ready_in_min) ==
    LET cafe_id == cafe_id_of(u)
        cafe == cafe_or_default(cafe_id)
        menu == get_menu(cafe_id)
        cart == get_cart(fsm_data[u])
        rl == cafe_rate_limit_seconds(cafe)
    IN IF cart = EmptyDict
       THEN /\ Respond(u, "none", EmptyData, Answer("finalize_order", text, "cart_empty", 0), TRUE)
            /\ UNCHANGED order_vars
       ELSE IF is_rate_limited(rate_limit_get(u), now, rl)
       THEN finalize_rejected(u, text)
       ELSE finalize_accepted(u, text, cafe_id, cart, menu, rl)

ready_time(u, text) ==
    /\ route(fsm_state[u], text) = "ready_time"
    /\ IF text = BTN_CANCEL
       THEN show_cart(u, "ready_time", text, fsm_data[u]) /\ UNCHANGED order_vars
       ELSE IF text = BTN_READY_NOW
       THEN finalize_order(u, text, 0)
       ELSE IF text = BTN_READY_20
       THEN finalize_order(u, text, 20)
       ELSE /\ Respond(u, fsm_state[u], fsm_data[u], Answer("ready_time", text, "choose", 0), FALSE)
            /\ UNCHANGED order_vars
    /\ UNCHANGED <<user_cafe, last_seen, clock_vars, world_vars, task>>

(***************************************************************************)
(* Booking (allowed in non-working hours).                                 *)
(***************************************************************************)
booking_start(u, text) ==
    /\ route(fsm_state[u], text) = "booking_start"
    /\ Respond(u, "waiting_for_datetime", EmptyData,
               Answer("booking_start", text,
                      IF cafe_open(cafe_or_default(cafe_id_of(u))) THEN "when" ELSE "when_closed", 0),
               FALSE)
    /\ UNCHANGED <<user_cafe, order_vars, last_seen, clock_vars, world_vars, task>>

\* re.match on "D.M H:MM" followed by datetime(year, month, day, hour, minute):
\* "ok" with the formatted date, "bad_date" when datetime raises, "no_match".
booking_parse_datetime(text) ==
    CASE text = "15.02 19:00" -> [res |-> "ok", dt |-> "15.02 19:00"]
      [] text = "31.02 19:00" -> [res |-> "bad_date", dt |-> ""]
      [] OTHER -> [res |-> "no_match", dt |-> ""]

booking_datetime(u, text) ==
    /\ route(fsm_state[u], text) = "booking_datetime"
    /\ LET m == booking_parse_datetime(text)
       IN IF text = BTN_CANCEL
          THEN Respond(u, "none", EmptyData, Answer("booking_datetime", text, "cancelled", 0), TRUE)
          ELSE IF m.res = "no_match"
          THEN Respond(u, fsm_state[u], fsm_data[u], Answer("booking_datetime", text, "format", 0), TRUE)
          ELSE IF m.res = "bad_date"
          THEN Respond(u, fsm_state[u], fsm_data[u], Answer("booking_datetime", text, "bad_date", 0), TRUE)
          ELSE Respond(u, "waiting_for_people", [fsm_data[u] EXCEPT !.booking_dt = m.dt],
                       Answer("booking_datetime", text, "how_many_guests", 0), TRUE)
    /\ UNCHANGED <<user_cafe, order_vars, last_seen, clock_vars, world_vars, task>>

\* int((message.text or "").strip()): the whole text as a number, -1 when
\* the conversion raises.
whole_text_int(text) ==
    CASE text = "0" -> 0
      [] text = "1" -> 1
      [] text = "2" -> 2
      [] text = "3" -> 3
      [] text = "4" -> 4
      [] text = "5" -> 5
      [] text = "6" -> 6
      [] text = "12" -> 12
      [] OTHER -> -1

\* Mutation: the party size is not held against the range.
booking_people_no_range(u, text) ==
    /\ route(fsm_state[u], text) = "booking_people"
    /\ LET people == whole_text_int(text)
       IN IF text = BTN_CANCEL
          THEN Respond(u, "none", EmptyData, Answer("booking_people", text, "cancelled", 0), TRUE)
          ELSE IF people < 0
          THEN Respond(u, fsm_state[u], fsm_data[u], Answer("booking_people", text, "need_1_10", 0), TRUE)
          ELSE Respond(u, "waiting_for_comment", [fsm_data[u] EXCEPT !.booking_people = people],
                       Answer("booking_people", text, "comment", 0), TRUE)
    /\ UNCHANGED <<user_cafe, order_vars, last_seen, clock_vars, world_vars, task>>

booking_people(u, text) ==
    /\ route(fsm_state[u], text) = "booking_people"
    /\ LET people == whole_text_int(text)
       IN IF text = BTN_CANCEL
          THEN Respond(u, "none", EmptyData, Answer("booking_people", text, "cancelled", 0), TRUE)
          ELSE IF ~(1 <= people /\ people <= 10)
          THEN Respond(u, fsm_state[u], fsm_data[u], Answer("booking_people", text, "need_1_10", 0), TRUE)
          ELSE Respond(u, "waiting_for_comment", [fsm_data[u] EXCEPT !.booking_people = people],
                       Answer("booking_people", text, "comment", 0), TRUE)
    /\ UNCHANGED <<user_cafe, order_vars, last_seen, clock_vars, world_vars, task>>

booking_finish(u, text) ==
    /\ route(fsm_state[u], text) = "booking_finish"
    /\ IF text = BTN_CANCEL
       THEN /\ Respond(u, "none", EmptyData, Answer("booking_finish", text, "cancelled", 0), TRUE)
            /\ UNCHANGED <<admin_inbox, staff_inbox>>
       ELSE /\ admin_inbox[cafe_id_of(u)] < MaxOrders
            /\ notify_admin(cafe_id_of(u))
            /\ Respond(u, "none", EmptyData,
                       Answer("booking_finish", text,
                              IF cafe_open(cafe_or_default(cafe_id_of(u)))
                              THEN "booked" ELSE "booked_closed", 0),
                       TRUE)
    /\ UNCHANGED <<user_cafe, rate_limit, last_order, stats, customers, profile, drinks,
                   last_seen, clock_vars, world_vars, task>>

(***************************************************************************)
(* Fallback (drink pick).                                                  *)
(***************************************************************************)
any_text(u, text) ==
    /\ route(fsm_state[u], text) = "any_text"
    /\ LET menu == get_menu(cafe_id_of(u))
       IN IF text \in DOMAIN menu
          THEN IF ~cafe_open(cafe_or_default(cafe_id_of(u)))
               THEN Respond(u, fsm_state[u], fsm_data[u], Answer("any_text", text, "closed", 0), TRUE)
               ELSE start_add_item(u, text, menu, text)
          ELSE Respond(u, fsm_state[u], fsm_data[u], Answer("any_text", text, "hint", 0), TRUE)
    /\ UNCHANGED <<user_cafe, order_vars, last_seen, clock_vars, world_vars, task>>

(***************************************************************************)
(* Client: repeat.                                                         *)
(***************************************************************************)
repeat_no(u, text) ==
    /\ route(fsm_state[u], text) = "repeat_no"
    /\ Respond(u, fsm_state[u], [fsm_data[u] EXCEPT !.repeat_offer_snapshot = NoSnapshot],
               Answer("repeat_no", text, "ok", 0), TRUE)
    /\ UNCHANGED <<user_cafe, order_vars, last_seen, clock_vars, world_vars, task>>

\* Mutation: the filter keeps the items that left the menu.
repeat_filtered_keeps_all(cart, menu) == SelectSeq(cart, LAMBDA e : e.v > 0)

\* {d: q for d, q in cart.items() if d in menu and q > 0}
repeat_filtered(cart, menu) == SelectSeq(cart, LAMBDA e : e.k \in DOMAIN menu /\ e.v > 0)

repeat_last(u, text, max_units) ==
    /\ route(fsm_state[u], text) = "repeat_last"
    /\ LET cafe_id == cafe_id_of(u)
           menu == get_menu(cafe_id)
           data == fsm_data[u]
           snap == IF data.repeat_offer_snapshot.present
                   THEN data.repeat_offer_snapshot
                   ELSE last_order[cafe_id][u]
           filtered == repeat_filtered(snap.cart, menu)
       IN IF ~snap.present \/ snap.cart = EmptyDict
          THEN Respond(u, fsm_state[u], data, Answer("repeat_last", text, "not_found", 0), TRUE)
          ELSE IF filtered = EmptyDict
          THEN Respond(u, fsm_state[u], data, Answer("repeat_last", text, "not_in_menu", 0), TRUE)
          ELSE /\ cart_units(filtered) <= max_units
               /\ show_cart(u, "repeat_last", text, [data EXCEPT !.cart = filtered])
    /\ UNCHANGED <<user_cafe, order_vars, last_seen, clock_vars, world_vars, task>>

(***************************************************************************)
(* /start.                                                                 *)
(***************************************************************************)
Payloads == {"", "cafe_1", "cafe_2", "cafe_9", "admin:cafe_2"}

\* <<cafe id named by the payload ("" = none), mode>>
parse_start_payload(payload) ==
    CASE payload = "" -> <<"", "client">>
      [] payload = "admin:cafe_2" -> <<"cafe_2", "admin">>
      [] OTHER -> <<payload, "client">>

\* Mutation: a valid stored binding wins over the payload.
resolve_cafe_id_saved_first(u, cafe_id_from_payload) ==
    IF user_cafe[u] # "" /\ user_cafe[u] \in CafeIds
    THEN user_cafe[u]
    ELSE IF cafe_id_from_payload # "" /\ cafe_id_from_payload \in CafeIds
    THEN cafe_id_from_payload
    ELSE DEFAULT_CAFE_ID

\* Mutation: without a known payload the default cafe is taken at once.
resolve_cafe_id_no_saved(u, cafe_id_from_payload) ==
    IF cafe_id_from_payload # "" /\ cafe_id_from_payload \in CafeIds
    THEN cafe_id_from_payload
    ELSE DEFAULT_CAFE_ID

resolve_cafe_id(u, cafe_id_from_payload) ==
    IF cafe_id_from_payload # "" /\ cafe_id_from_payload \in CafeIds
    THEN cafe_id_from_payload
    ELSE IF user_cafe[u] # "" /\ user_cafe[u] \in CafeIds
    THEN user_cafe[u]
    ELSE DEFAULT_CAFE_ID

\* Mutation: the offer does not look at the day.
should_offer_repeat_any_day(cafe_id, u) ==
    /\ last_order[cafe_id][u].present
    /\ last_seen[cafe_id][u] # -1

should_offer_repeat(cafe_id, u) ==
    /\ last_order[cafe_id][u].present
    /\ last_seen[cafe_id][u] # -1
    /\ last_seen[cafe_id][u] # msk_day

\* Mutation: the conversation is not cleared before the cafe is resolved.
cmd_start_keeps_state(u, payload) ==
    LET parsed == parse_start_payload(payload)
        cafe_id == resolve_cafe_id(u, parsed[1])
        cafe == cafe_or_default(cafe_id)
        is_admin == is_cafe_admin(u, cafe_id)
        snap == last_order[cafe_id][u]
        Leave(data, kind) ==
            /\ fsm_state' = fsm_state
            /\ fsm_data' = [fsm_data EXCEPT ![u] = [data EXCEPT !.cart = get_cart(fsm_data[u])]]
            /\ reply' = [reply EXCEPT ![u] = Answer("cmd_start", payload, kind, 0)]
    IN /\ user_cafe' = [user_cafe EXCEPT ![u] = cafe_id]
       /\ redis_menu' = redis_menu_after_get(cafe_id)
       /\ IF parsed[2] \in {"admin", "super"}
          THEN /\ Leave(EmptyData, IF is_admin THEN "admin_panel" ELSE "admin_denied")
               /\ UNCHANGED last_seen
          ELSE IF is_admin
          THEN Leave(EmptyData, "admin_panel") /\ UNCHANGED last_seen
          ELSE /\ last_seen' = [last_seen EXCEPT ![cafe_id][u] = msk_day]
               /\ IF ~cafe_open(cafe)
                  THEN Leave(EmptyData, "closed")
                  ELSE IF should_offer_repeat(cafe_id, u) /\ snap.cart # EmptyDict
                  THEN Leave([EmptyData EXCEPT !.repeat_offer_snapshot = snap,
                                               !.cafe_id = cafe_id],
                             "offer_repeat")
                  ELSE Leave(EmptyData, "welcome")
       /\ UNCHANGED <<order_vars, clock_vars, world_vars, task>>

cmd_start(u, payload) ==
    LET parsed == parse_start_payload(payload)
        cafe_id == resolve_cafe_id(u, parsed[1])
        cafe == cafe_or_default(cafe_id)
        is_admin == is_cafe_admin(u, cafe_id)
        snap == last_order[cafe_id][u]
        Leave(data, kind) ==
            /\ fsm_state' = [fsm_state EXCEPT ![u] = "none"]
            /\ fsm_data' = [fsm_data EXCEPT ![u] = data]
            /\ reply' = [reply EXCEPT ![u] = Answer("cmd_start", payload, kind, 0)]
    IN /\ user_cafe' = [user_cafe EXCEPT ![u] = cafe_id]
       /\ redis_menu' = redis_menu_after_get(cafe_id)
       /\ IF parsed[2] \in {"admin", "super"}
          THEN /\ Leave(EmptyData, IF is_admin THEN "admin_panel" ELSE "admin_denied")
               /\ UNCHANGED last_seen
          ELSE IF is_admin
          THEN Leave(EmptyData, "admin_panel") /\ UNCHANGED last_seen
          ELSE /\ last_seen' = [last_seen EXCEPT ![cafe_id][u] = msk_day]
               /\ IF ~cafe_open(cafe)
                  THEN Leave(EmptyData, "closed")
                  ELSE IF should_offer_repeat(cafe_id, u) /\ snap.cart # EmptyDict
                  THEN Leave([EmptyData EXCEPT !.repeat_offer_snapshot = snap,
                                               !.cafe_id = cafe_id],
                             "offer_repeat")
                  ELSE Leave(EmptyData, "welcome")
       /\ UNCHANGED <<order_vars, clock_vars, world_vars, task>>

(***************************************************************************)
(* Admin: menu edit.  The steps of the menu-edit dialogue that write the    *)
(* menu hash; the admin is the cafe's admin_id and is bound to the cafe.    *)
(***************************************************************************)
\* r.hset(k_menu(cafe_id), mapping={drink: price})
menu_set_item(menus, cafe_id, drink, price) == [menus EXCEPT ![cafe_id] = FSet(@, drink, price)]

\* r.hdel(k_menu(cafe_id), drink)
menu_delete_item(menus, cafe_id, drink) == [menus EXCEPT ![cafe_id] = FDel(@, drink)]

\* The name is the add_name the admin typed in the step before.
menu_edit_add_price(cafe_id, name, price) ==
    /\ price > 0
    /\ redis_menu' = menu_set_item(redis_menu, cafe_id, name, price)
    /\ UNCHANGED <<fsm_state, fsm_data, user_cafe, order_vars, last_seen, clock_vars, world_vars,
                   reply, task>>

\* The name is the edit_name picked from get_menu in menu_pick_edit_item.
menu_edit_price(cafe_id, name, price) ==
    /\ price > 0
    /\ name \in DOMAIN redis_menu[cafe_id]
    /\ redis_menu' = menu_set_item(redis_menu, cafe_id, name, price)
    /\ UNCHANGED <<fsm_state, fsm_data, user_cafe, order_vars, last_seen, clock_vars, world_vars,
                   reply, task>>

menu_pick_remove_item(cafe_id, picked) ==
    /\ picked \in DOMAIN get_menu(cafe_id)
    /\ redis_menu' = menu_delete_item(redis_menu_after_get(cafe_id), cafe_id, picked)
    /\ UNCHANGED <<fsm_state, fsm_data, user_cafe, order_vars, last_seen, clock_vars, world_vars,
                   reply, task>>

(***************************************************************************)
(* The clocks.                                                             *)
(***************************************************************************)
tick ==
    /\ now < MaxTime
    /\ now' = now + 1
    /\ UNCHANGED <<fsm_state, fsm_data, user_cafe, redis_menu, order_vars, last_seen,
                   world_vars, msk_hour, msk_day, reply, task>>

hour_passes ==
    /\ \E h \in Hours \ {msk_hour} : msk_hour' = h
    /\ UNCHANGED <<fsm_state, fsm_data, user_cafe, redis_menu, order_vars, last_seen,
                   world_vars, now, msk_day, reply, task>>

day_passes ==
    /\ msk_day < MaxDay
    /\ msk_day' = msk_day + 1
    /\ UNCHANGED <<fsm_state, fsm_data, user_cafe, redis_menu, order_vars, last_seen,
                   world_vars, now, msk_hour, reply, task>>

\* The clock of the win-back slice moves three and a half days at a time.
Jump == (7 * DaySeconds) \div 2

SweepStart == DaySeconds

time_passes ==
    /\ now + Jump <= SweepStart + MaxJumps * Jump
    /\ now' = now + Jump
    /\ UNCHANGED <<fsm_state, fsm_data, user_cafe, redis_menu, order_vars, last_seen,
                   world_vars, msk_hour, msk_day, reply, task>>

send_hour_passes ==
    /\ \E h \in SweepHours \ {msk_hour} : msk_hour' = h
    /\ UNCHANGED <<fsm_state, fsm_data, user_cafe, redis_menu, order_vars, last_seen,
                   world_vars, now, msk_day, reply, task>>

\* An operation starts or stops raising.
fault_changes ==
    /\ \E f \in FaultSets \ {fault} : fault' = f
    /\ UNCHANGED <<fsm_state, fsm_data, user_cafe, redis_menu, order_vars, last_seen,
                   staff_group, outreach, loop_pc, clock_vars, reply, task>>

(***************************************************************************)
(* /bind in a group chat, by the cafe's admin.                             *)
(***************************************************************************)
cmd_bind(cafe_id) ==
    /\ cafe_id \in CafeIds
    /\ staff_group' = [staff_group EXCEPT ![cafe_id] = TRUE]
    /\ UNCHANGED <<fsm_state, fsm_data, user_cafe, redis_menu, order_vars, last_seen,
                   fault, outreach, loop_pc, clock_vars, reply, task>>

(***************************************************************************)
(* An update whose handler raises at its first store operation: the error  *)
(* handler logs the exception and nothing is answered.                     *)
(***************************************************************************)
error_handler(u, text) ==
    /\ reply' = [reply EXCEPT ![u] = Answer(route(fsm_state[u], text), text, "no_answer", 0)]
    /\ UNCHANGED <<fsm_state, fsm_data, user_cafe, redis_menu, order_vars, last_seen,
                   clock_vars, world_vars, task>>

(***************************************************************************)
(* Smart return loop.                                                      *)
(***************************************************************************)
in_send_window_msk == RETURN_SEND_FROM_HOUR <= msk_hour /\ msk_hour < RETURN_SEND_TO_HOUR

\* (now_ts - last_order_ts) // 86400
days_since(p) == (now - p.last_order_ts) \div DaySeconds

\* Mutation: one day less than the return cycle is enough.
return_due_early(cafe_id, u) ==
    LET p == profile[cafe_id][u]
    IN /\ u \in customers[cafe_id]
       /\ p.present
       /\ p.offers_opt_out # 1
       /\ days_since(p) >= DEFAULT_RETURN_CYCLE_DAYS - 4
       /\ ~(p.last_trigger_ts # 0 /\ now - p.last_trigger_ts < RETURN_COOLDOWN_DAYS * DaySeconds)

\* Mutation: the cooldown is not looked at.
return_due_no_cooldown(cafe_id, u) ==
    LET p == profile[cafe_id][u]
    IN /\ u \in customers[cafe_id]
       /\ p.present
       /\ p.offers_opt_out # 1
       /\ days_since(p) >= DEFAULT_RETURN_CYCLE_DAYS

\* The customer passes every "continue" of the sweep's loop.
return_due(cafe_id, u) ==
    LET p == profile[cafe_id][u]
    IN /\ u \in customers[cafe_id]
       /\ p.present
       /\ p.offers_opt_out # 1
       /\ days_since(p) >= DEFAULT_RETURN_CYCLE_DAYS
       /\ ~(p.last_trigger_ts # 0 /\ now - p.last_trigger_ts < RETURN_COOLDOWN_DAYS * DaySeconds)

\* The customers set after the sweep: srem for every send that raised.
sweep_customers(cafe_id, sent) ==
    {u \in customers[cafe_id] : return_due(cafe_id, u) => sent[u] = "ok"}

\* Mutation: the stamp is written with the last-order time.
sweep_profile_touches_order(cafe_id, u, sent) ==
    IF return_due(cafe_id, u) /\ sent[u] = "ok"
    THEN [profile[cafe_id][u] EXCEPT !.last_trigger_ts = now, !.last_order_ts = now]
    ELSE profile[cafe_id][u]

\* The profile after the sweep: last_trigger_ts is stamped on a delivery.
sweep_profile(cafe_id, u, sent) ==
    IF return_due(cafe_id, u) /\ sent[u] = "ok"
    THEN [profile[cafe_id][u] EXCEPT !.last_trigger_ts = now]
    ELSE profile[cafe_id][u]

\* One sweep over every cafe and every known customer; sent[u] is what
\* bot.send_message does for user u.  The store answers every call.
smart_return_check_and_send(sent) ==
    /\ in_send_window_msk
    /\ outreach' = outreach \cup
           {[cafe |-> x[1], user |-> x[2], ts |-> now] :
              x \in {y \in CafeIds \X Users : return_due(y[1], y[2]) /\ sent[y[2]] = "ok"}}
    /\ profile' = [c \in CafeIds |-> [u \in Users |-> sweep_profile(c, u, sent)]]
    /\ customers' = [c \in CafeIds |-> sweep_customers(c, sent)]
    /\ UNCHANGED <<fsm_state, fsm_data, user_cafe, redis_menu, rate_limit, last_order, stats,
                   drinks, admin_inbox, staff_inbox, last_seen, staff_group, fault, loop_pc,
                   clock_vars, reply, task>>

(***************************************************************************)
(* finalize_order as a background task (handle_in_background=True): the    *)
(* updates of one user are handled by concurrent tasks, which interleave   *)
(* at the awaits.  One step per group of awaits.                           *)
(***************************************************************************)
\* Dispatch through StateFilter(waiting_for_ready_time), then the reads up to
\* the empty-cart return.
fin_begin(t, u, text) ==
    /\ task[t].pc = "idle"
    /\ route(fsm_state[u], text) = "ready_time"
    /\ text \in {BTN_READY_NOW, BTN_READY_20}
    /\ LET cafe_id == cafe_id_of(u)
           cart == get_cart(fsm_data[u])
       IN IF cart = EmptyDict
          THEN /\ Respond(u, "none", EmptyData,
                          Answer("finalize_order", text, "cart_empty", 0), TRUE)
               /\ task' = [task EXCEPT ![t] = [IdleTask EXCEPT !.pc = "done", !.user = u,
                                                                 !.outcome = "cart_empty"]]
          ELSE /\ redis_menu' = redis_menu_after_get(cafe_id)
               /\ task' = [task EXCEPT ![t] =
                              [IdleTask EXCEPT !.pc = "rate_check", !.user = u, !.text = text,
                                               !.cafe_id = cafe_id, !.menu = get_menu(cafe_id),
                                               !.cart = cart,
                                               !.rl = cafe_rate_limit_seconds(
                                                          cafe_or_default(cafe_id))]]
               /\ UNCHANGED <<fsm_state, fsm_data, reply>>
    /\ UNCHANGED <<user_cafe, order_vars, last_seen, clock_vars, world_vars>>

\* last_order = await r.get(...) and the test on it.
fin_rate_check(t) ==
    /\ task[t].pc = "rate_check"
    /\ LET u == task[t].user
           marker == rate_limit_get(u)
       IN IF is_rate_limited(marker, now, task[t].rl)
          THEN /\ fsm_state' = [fsm_state EXCEPT ![u] = "none"]
               /\ fsm_data' = [fsm_data EXCEPT ![u] = EmptyData]
               /\ reply' = [reply EXCEPT ![u] =
                               Answer("finalize_order", task[t].text, "rate_limited", 0)]
               /\ task' = [task EXCEPT ![t].pc = "done", ![t].outcome = "rate_limited"]
          ELSE /\ task' = [task EXCEPT ![t].pc = "rate_write", ![t].passed = TRUE]
               /\ UNCHANGED <<fsm_state, fsm_data, reply>>
    /\ UNCHANGED <<user_cafe, redis_menu, order_vars, last_seen, clock_vars, world_vars>>

\* Mutation: the marker is set only if no live marker exists.
fin_rate_write_if_absent(t) ==
    /\ task[t].pc = "rate_write"
    /\ IF rate_limit_get(task[t].user).present
       THEN /\ task' = [task EXCEPT ![t].pc = "done", ![t].outcome = "rate_limited"]
            /\ UNCHANGED rate_limit
       ELSE /\ rate_limit' = [rate_limit EXCEPT ![task[t].user] = marker_written(now, task[t].rl)]
            /\ task' = [task EXCEPT ![t].pc = "record", ![t].ts = now]
    /\ UNCHANGED <<fsm_state, fsm_data, user_cafe, redis_menu, last_order, stats, customers,
                   profile, drinks, admin_inbox, staff_inbox,
                   last_seen, clock_vars, world_vars, reply>>

\* await r.setex(k_rate_limit(user_id), rl, str(time.time()))
fin_rate_write(t) ==
    /\ task[t].pc = "rate_write"
    /\ rate_limit' = [rate_limit EXCEPT ![task[t].user] = marker_written(now, task[t].rl)]
    /\ task' = [task EXCEPT ![t].pc = "record", ![t].ts = now]
    /\ UNCHANGED <<fsm_state, fsm_data, user_cafe, redis_menu, last_order, stats, customers,
                   profile, drinks, admin_inbox, staff_inbox,
                   last_seen, clock_vars, world_vars, reply>>

\* The snapshot, the counters and customer_mark_order.
fin_record(t) ==
    /\ task[t].pc = "record"
    /\ LET u == task[t].user
           cafe_id == task[t].cafe_id
           cart == task[t].cart
           total == cart_total(cart, task[t].menu)
       IN /\ last_order' = [last_order EXCEPT ![cafe_id][u] = order_snapshot(cart, total, now)]
          /\ stats' = [stats EXCEPT ![cafe_id] = stats_after(@, cart, task[t].menu, total)]
          /\ customer_mark_order(cafe_id, u, cart, total, now)
          /\ task' = [task EXCEPT ![t].pc = "notify", ![t].total = total]
    /\ UNCHANGED <<fsm_state, fsm_data, user_cafe, redis_menu, rate_limit, admin_inbox,
                   staff_inbox,
                   last_seen, clock_vars, world_vars, reply>>

\* notify_admin, the answer to the user and state.clear().
fin_notify(t) ==
    /\ task[t].pc = "notify"
    /\ LET u == task[t].user
       IN /\ notify_admin(task[t].cafe_id)
          /\ fsm_state' = [fsm_state EXCEPT ![u] = "none"]
          /\ fsm_data' = [fsm_data EXCEPT ![u] = EmptyData]
          /\ reply' = [reply EXCEPT ![u] =
                          Answer("finalize_order", task[t].text, "accepted", task[t].total)]
          /\ task' = [task EXCEPT ![t].pc = "done", ![t].outcome = "accepted"]
    /\ UNCHANGED <<user_cafe, redis_menu, rate_limit, last_order, stats, customers, profile,
                   drinks, last_seen, clock_vars, world_vars>>

(***************************************************************************)
(* Specifications.  One user sends the texts; each specification takes    *)
(* the handlers and the texts of one part of the pipeline.                 *)
(***************************************************************************)
U1 == "u1"
Cafe1 == "cafe_1"

\* Checkout against a menu the admin edits, within one second.
OrderTexts == Drinks \cup OtherTexts \cup {"1", "2", BTN_CHECKOUT, BTN_CONFIRM, BTN_READY_NOW}

Next ==
    \/ \E t \in OrderTexts : any_text(U1, t)
    \/ \E t \in OrderTexts : process_quantity(U1, t, MaxUnits)
    \/ \E t \in OrderTexts : checkout(U1, t)
    \/ \E t \in OrderTexts : confirm_order(U1, t)
    \/ \E t \in OrderTexts : ready_time(U1, t)
    \/ \E p \in Prices : menu_edit_price(Cafe1, "Latte", p)
    \/ menu_edit_add_price(Cafe1, "Mocha", CAFES[Cafe1].menu["Mocha"])
    \/ menu_pick_remove_item(Cafe1, "Mocha")

Spec == Init /\ [][Next]_vars

\* Checkout over time and across the two cafes.
RateTexts == {"Latte", "1", BTN_CHECKOUT, BTN_CONFIRM, BTN_READY_NOW}

NextRate ==
    \/ \E t \in RateTexts : any_text(U1, t)
    \/ \E t \in RateTexts : process_quantity(U1, t, MaxRateUnits)
    \/ \E t \in RateTexts : checkout(U1, t)
    \/ \E t \in RateTexts : confirm_order(U1, t)
    \/ \E t \in RateTexts : ready_time(U1, t)
    \/ \E p \in Payloads : cmd_start(U1, p)
    \/ tick

SpecRate == Init /\ [][NextRate]_vars

\* Cart editing.
CartTexts ==
    Drinks \cup QtyTexts \cup OtherTexts
    \cup {BTN_CART, BTN_CLEAR_CART, BTN_CANCEL_ORDER, BTN_EDIT_CART, BTN_CANCEL,
          BTN_REPEAT_LAST, BTN_REPEAT_NO, CART_ACT_PLUS, CART_ACT_MINUS, CART_ACT_DEL,
          CART_ACT_DONE}

\* The store after an earlier order of PriorCart at cafe_1.
PriorCart == <<[k |-> "Latte", v |-> 2], [k |-> "Mocha", v |-> 1]>>

InitCart ==
    LET total == cart_total(PriorCart, CAFES[Cafe1].menu)
    IN /\ fsm_state = [u \in Users |-> "none"]
       /\ fsm_data = [u \in Users |-> EmptyData]
       /\ user_cafe = [u \in Users |-> IF u = U1 THEN Cafe1 ELSE ""]
       /\ redis_menu = [c \in CafeIds |-> IF c = Cafe1 THEN CAFES[Cafe1].menu ELSE NoKeys]
       /\ rate_limit = [u \in Users |-> NoMarker]
       /\ last_order = [c \in CafeIds |-> [u \in Users |->
                           IF c = Cafe1 /\ u = U1 THEN order_snapshot(PriorCart, total, 0)
                           ELSE NoSnapshot]]
       /\ stats = [c \in CafeIds |->
                      IF c = Cafe1 THEN stats_after(NoStats, PriorCart, CAFES[Cafe1].menu, total)
                      ELSE NoStats]
       /\ customers = [c \in CafeIds |-> IF c = Cafe1 THEN {U1} ELSE {}]
       /\ profile = [c \in CafeIds |-> [u \in Users |->
                        IF c = Cafe1 /\ u = U1 THEN profile_after(NoProfile, PriorCart, total, 0)
                        ELSE NoProfile]]
       /\ drinks = [c \in CafeIds |-> [u \in Users |->
                       IF c = Cafe1 /\ u = U1 THEN drinks_after(EmptyDict, PriorCart)
                       ELSE EmptyDict]]
       /\ last_seen = [c \in CafeIds |-> [u \in Users |-> IF c = Cafe1 /\ u = U1 THEN 0 ELSE -1]]
       /\ admin_inbox = [c \in CafeIds |-> IF c = Cafe1 THEN 1 ELSE 0]
       /\ staff_inbox = [c \in CafeIds |-> 0]
       /\ staff_group = [c \in CafeIds |-> FALSE]
       /\ fault = {}
       /\ outreach = {}
       /\ loop_pc = "sweep"
       /\ now = MaxTime
       /\ msk_hour = DEFAULT_WORK_START
       /\ msk_day = 0
       /\ reply = [u \in Users |-> NoReply]
       /\ task = [t \in Tasks |-> IdleTask]

NextCart ==
    \/ \E t \in CartTexts : any_text(U1, t)
    \/ \E t \in CartTexts : process_quantity(U1, t, MaxCartUnits)
    \/ \E t \in CartTexts : cart_button(U1, t)
    \/ \E t \in CartTexts : clear_cart(U1, t)
    \/ \E t \in CartTexts : cancel_order(U1, t)
    \/ \E t \in CartTexts : edit_cart(U1, t)
    \/ \E t \in CartTexts : pick_item_to_edit(U1, t)
    \/ \E t \in CartTexts : cart_edit_action(U1, t, MaxCartUnits)
    \/ \E t \in CartTexts : repeat_last(U1, t, MaxCartUnits)
    \/ \E t \in CartTexts : repeat_no(U1, t)
    \/ menu_edit_add_price(Cafe1, "Mocha", CAFES[Cafe1].menu["Mocha"])
    \/ menu_pick_remove_item(Cafe1, "Mocha")
    \/ hour_passes

SpecCart == InitCart /\ [][NextCart]_vars

\* Two updates of one user finalized by concurrent tasks.
RaceTexts == {"Latte", "1", BTN_CHECKOUT, BTN_CONFIRM}

NextRace ==
    \/ \E t \in RaceTexts : any_text(U1, t)
    \/ \E t \in RaceTexts : process_quantity(U1, t, MaxRateUnits)
    \/ \E t \in RaceTexts : checkout(U1, t)
    \/ \E t \in RaceTexts : confirm_order(U1, t)
    \/ \E t \in Tasks : fin_begin(t, U1, BTN_READY_NOW)
    \/ \E t \in Tasks : fin_rate_check(t)
    \/ \E t \in Tasks : fin_rate_write(t)
    \/ \E t \in Tasks : fin_record(t)
    \/ \E t \in Tasks : fin_notify(t)
    \/ tick

SpecRace == Init /\ [][NextRace]_vars

\* The repeat offer: a returning customer of cafe_1 starts sessions over
\* several days and answers the offer, while the admin edits the menu.
RepeatTexts == {BTN_REPEAT_LAST, BTN_REPEAT_NO, BTN_CART, BTN_CLEAR_CART}

NextRepeat ==
    \/ \E p \in Payloads : cmd_start(U1, p)
    \/ \E t \in RepeatTexts :
          \/ repeat_last(U1, t, MaxCartUnits)
          \/ repeat_no(U1, t)
          \/ cart_button(U1, t)
          \/ clear_cart(U1, t)
    \/ \E d \in Drinks :
          \/ menu_pick_remove_item(Cafe1, d)
          \/ menu_edit_add_price(Cafe1, d, CAFES[Cafe1].menu[d])
    \/ menu_edit_add_price(Cafe1, "Tea", 150)
    \/ hour_passes
    \/ day_passes

SpecRepeat == InitCart /\ [][NextRepeat]_vars

\* /start with every payload, by both users.  The store may hold, from an
\* earlier run, a binding of u1 to a cafe that has since left the directory.
StoredBindings == {"", "cafe_1", "cafe_2", "cafe_0"}

InitStart ==
    /\ fsm_state = [u \in Users |-> "none"]
    /\ fsm_data = [u \in Users |-> EmptyData]
    /\ \E b \in StoredBindings : user_cafe = [u \in Users |-> IF u = U1 THEN b ELSE ""]
    /\ redis_menu = [c \in CafeIds |-> NoKeys]
    /\ rate_limit = [u \in Users |-> NoMarker]
    /\ last_order = [c \in CafeIds |-> [u \in Users |-> NoSnapshot]]
    /\ stats = [c \in CafeIds |-> NoStats]
    /\ customers = [c \in CafeIds |-> {}]
    /\ profile = [c \in CafeIds |-> [u \in Users |-> NoProfile]]
    /\ drinks = [c \in CafeIds |-> [u \in Users |-> EmptyDict]]
    /\ last_seen = [c \in CafeIds |-> [u \in Users |-> -1]]
    /\ admin_inbox = [c \in CafeIds |-> 0]
    /\ staff_inbox = [c \in CafeIds |-> 0]
    /\ staff_group = [c \in CafeIds |-> FALSE]
    /\ fault = {}
    /\ outreach = {}
    /\ loop_pc = "sweep"
    /\ now = 0
    /\ msk_hour = DEFAULT_WORK_START
    /\ msk_day = 0
    /\ reply = [u \in Users |-> NoReply]
    /\ task = [t \in Tasks |-> IdleTask]

NextStart ==
    \/ \E u \in Users, p \in Payloads : cmd_start(u, p)
    \/ hour_passes

SpecStart == InitStart /\ [][NextStart]_vars

\* The conversation protocol: ordering, cart, item edit and booking handlers
\* of one user at one cafe whose opening hours pass.
FlowTexts ==
    {"Latte", "1", "15.02 19:00", "-",
     BTN_CART, BTN_CLEAR_CART, BTN_CANCEL_ORDER, BTN_EDIT_CART, BTN_CANCEL, CART_ACT_DONE,
     BTN_CHECKOUT, BTN_CONFIRM, BTN_READY_NOW, BTN_BOOKING}

NextFlow ==
    \/ \E t \in FlowTexts :
          \/ any_text(U1, t)
          \/ process_quantity(U1, t, MaxFlowUnits)
          \/ cart_button(U1, t)
          \/ clear_cart(U1, t)
          \/ cancel_order(U1, t)
          \/ edit_cart(U1, t)
          \/ pick_item_to_edit(U1, t)
          \/ cart_edit_action(U1, t, MaxFlowUnits)
          \/ checkout(U1, t)
          \/ confirm_order(U1, t)
          \/ ready_time(U1, t)
          \/ booking_start(U1, t)
          \/ booking_datetime(U1, t)
          \/ booking_people(U1, t)
          \/ booking_finish(U1, t)
    \/ hour_passes

SpecFlow == Init /\ [][NextFlow]_vars

(***************************************************************************)
(* Properties of the rate limit.                                           *)
(***************************************************************************)
ReadyTexts == {BTN_READY_NOW, BTN_READY_20}

\* A step of finalize_order for U1 with a cart that is not empty.
FinalizeAttempt ==
    /\ get_cart(fsm_data[U1]) # EmptyDict
    /\ \E t \in ReadyTexts : ready_time(U1, t)

\* The user's successful checkouts, read from the customer profiles.
HasOrdered(u) == \E c \in CafeIds : profile[c][u].present

LastOrderTs(u) ==
    CHOOSE ts \in 0..MaxTime + 1 :
        /\ \E c \in CafeIds : profile[c][u].present /\ profile[c][u].last_order_ts = ts
        /\ \A c \in CafeIds : profile[c][u].present => profile[c][u].last_order_ts <= ts

CurrentWindow(u) == cafe_rate_limit_seconds(cafe_or_default(cafe_id_of(u)))

Rejected == reply'[U1].kind = "rate_limited" /\ UNCHANGED order_vars

Accepted == reply'[U1].kind = "accepted"

\* C1 as stated: after a successful finalize at time t, a finalize at t' with
\* t' - t < the window of the user's current cafe is rejected and records
\* nothing, a finalize at t' >= t + window is accepted, and a rejected
\* finalize leaves the marker as it was.
C1_AsStated ==
    [][(FinalizeAttempt /\ HasOrdered(U1)) =>
          /\ (now - LastOrderTs(U1) < CurrentWindow(U1)) => Rejected
          /\ (now - LastOrderTs(U1) >= CurrentWindow(U1)) => Accepted
          /\ reply'[U1].kind = "rate_limited" => rate_limit' = rate_limit]_vars

\* The live marker is younger than the window of the current cafe.
MarkerLimits(u) ==
    /\ rate_limit[u].present
    /\ now < rate_limit[u].expires
    /\ now - rate_limit[u].ts < CurrentWindow(u)

\* C3: a finalize rejected as rate limited leaves the user idle with an empty
\* cart and records nothing: marker, snapshot, counters, profile and drink
\* frequency are unchanged and the admin receives no notification.
C3_RejectedRecordsNothing ==
    [][(FinalizeAttempt /\ MarkerLimits(U1)) =>
          /\ reply'[U1].kind = "rate_limited"
          /\ fsm_state'[U1] = "none"
          /\ fsm_data'[U1] = EmptyData
          /\ rate_limit' = rate_limit
          /\ last_order' = last_order
          /\ stats' = stats
          /\ customers' = customers
          /\ profile' = profile
          /\ drinks' = drinks
          /\ admin_inbox' = admin_inbox]_vars

\* The user was rejected after one recorded order.
C3_Witness ==
    /\ reply[U1].kind = "rate_limited"
    /\ fsm_state[U1] = "none"
    /\ get_cart(fsm_data[U1]) = EmptyDict
    /\ stats[Cafe1].total_orders = 1
    /\ admin_inbox[Cafe1] = 1

ScenarioCart == <<[k |-> "Latte", v |-> 2], [k |-> "Mocha", v |-> 1]>>

\* The scenario: the cart {Latte:2, Mocha:1}, total 650, is checked out
\* inside the window of a prior checkout.
ScenarioRejection ==
    /\ FinalizeAttempt
    /\ MarkerLimits(U1)
    /\ get_cart(fsm_data[U1]) = ScenarioCart

\* C4 as stated: the rejected checkout leaves the cart {Latte:2, Mocha:1}.
C4_AsStated ==
    [][ScenarioRejection => get_cart(fsm_data'[U1]) = ScenarioCart]_vars

\* C4, amended: the checkout of the cart {Latte:2, Mocha:1} inside the window
\* of a prior checkout is rejected and the cart is dropped: afterwards the
\* cart is empty and no item of it can be checked out again.
C4_ScenarioCartDropped ==
    [][ScenarioRejection =>
          /\ reply'[U1].kind = "rate_limited"
          /\ DKeys(get_cart(fsm_data'[U1])) = {}
          /\ fsm_state'[U1] # "waiting_for_ready_time"]_vars

\* The scenario's cart, priced 650 at confirmation, waits for its ready time
\* inside the window of the prior checkout.
C4_Witness ==
    /\ fsm_state[U1] = "waiting_for_ready_time"
    /\ get_cart(fsm_data[U1]) = ScenarioCart
    /\ cart_total(ScenarioCart, get_menu(Cafe1)) = 650
    /\ MarkerLimits(U1)
    /\ last_order[Cafe1][U1].present

(***************************************************************************)
(* Properties of the total and of items that left the menu.                *)
(***************************************************************************)
\* The sum of price * quantity over a set of drinks, written over the set.
RECURSIVE SumPrices(_, _, _)
SumPrices(S, cart, menu) ==
    IF S = {}
    THEN 0
    ELSE LET d == CHOOSE x \in S : TRUE
         IN menu[d] * DGet(cart, d, 0) + SumPrices(S \ {d}, cart, menu)

PricedTotal(cart, menu) == SumPrices(DKeys(cart) \cap DOMAIN menu, cart, menu)

\* Every menu over the drinks and the prices of the model.
AllMenus == UNION {[S -> Prices \cup {CAFES[Cafe1].menu[d] : d \in Drinks}] : S \in SUBSET Drinks}

InMenu(cart, menu) == SelectSeq(cart, LAMBDA e : e.k \in DOMAIN menu)

\* A step of finalize_order for U1 that records an order.
FinalizeAccepted == FinalizeAttempt /\ Accepted

\* C5: for every cart and menu the total is the sum of price * quantity over
\* the cart's items that are in the menu, items outside the menu add nothing,
\* and the total is not negative; the total finalize records (snapshot,
\* revenue counter, answer) is priced from the menu as it is when finalize
\* runs.
C5_Total ==
    /\ [](\A menu \in AllMenus :
             LET cart == get_cart(fsm_data[U1])
             IN /\ cart_total(cart, menu) = PricedTotal(cart, menu)
                /\ cart_total(cart, menu) = cart_total(InMenu(cart, menu), menu)
                /\ cart_total(cart, menu) >= 0)
    /\ [][FinalizeAccepted =>
             LET c == cafe_id_of(U1)
                 live == PricedTotal(get_cart(fsm_data[U1]), get_menu(c))
             IN /\ last_order'[c][U1].total = live
                /\ stats'[c].total_revenue = stats[c].total_revenue + live
                /\ profile'[c][U1].last_order_sum = live
                /\ reply'[U1].total = live]_vars

\* An order of Latte and Mocha recorded at 300: Latte at its edited price,
\* Mocha gone from the menu.
C5_Witness ==
    /\ last_order[Cafe1][U1].present
    /\ DKeys(last_order[Cafe1][U1].cart) = {"Latte", "Mocha"}
    /\ last_order[Cafe1][U1].total = 300
    /\ stats[Cafe1].total_revenue = 300

\* C6 as stated: at finalize a cart item that is not in the current menu is
\* left out of the recorded snapshot cart, of the per-item counters and of
\* the customer's drink frequency.
C6_AsStated ==
    [][FinalizeAccepted =>
          LET c == cafe_id_of(U1)
              gone == DKeys(get_cart(fsm_data[U1])) \ DOMAIN get_menu(c)
          IN \A d \in gone :
                /\ d \notin DKeys(last_order'[c][U1].cart)
                /\ FGet(stats'[c].drink_cnt, d, 0) = FGet(stats[c].drink_cnt, d, 0)
                /\ DGet(drinks'[c][U1], d, 0) = DGet(drinks[c][U1], d, 0)]_vars

\* C7 as stated: a text that names no menu item, received with no state or
\* in the cart view, changes neither the state nor the cart; a quantity
\* entered for a pending item that has left the menu leaves the cart as it
\* was.
C7_AsStated ==
    [][/\ \A t \in OrderTexts :
             (/\ any_text(U1, t)
              /\ fsm_state[U1] \in {"none", "cart_view"}
              /\ t \notin DOMAIN get_menu(cafe_id_of(U1)))
             => /\ fsm_state'[U1] = fsm_state[U1]
                /\ get_cart(fsm_data'[U1]) = get_cart(fsm_data[U1])
       /\ \A t \in OrderTexts :
             (/\ process_quantity(U1, t, MaxUnits)
              /\ first_char_int(t) \in QTY_MIN..QTY_MAX
              /\ fsm_data[U1].current_drink \notin DOMAIN get_menu(cafe_id_of(U1)))
             => get_cart(fsm_data'[U1]) = get_cart(fsm_data[U1])]_vars

(***************************************************************************)
(* Properties of the cart edits.                                           *)
(***************************************************************************)
\* C8: whatever add-quantity, +1, -1, remove, clear, repeat-last and cancel
\* events came before, every quantity stored in the cart is an integer
\* greater than zero, and no item is stored twice.
C8_QuantitiesPositive ==
    LET cart == get_cart(fsm_data[U1])
    IN /\ \A i \in DOMAIN cart : cart[i].v \in Nat /\ cart[i].v > 0
       /\ \A i, j \in DOMAIN cart : cart[i].k = cart[j].k => i = j

\* A -1 took the last unit of the edited item, which left the cart while
\* another item stayed.
C8_Witness ==
    /\ reply[U1].h = "cart_edit_action"
    /\ reply[U1].text = CART_ACT_MINUS
    /\ reply[U1].kind = "cart"
    /\ fsm_data[U1].edit_item \notin DKeys(get_cart(fsm_data[U1]))
    /\ get_cart(fsm_data[U1]) # EmptyDict

\* The step of cart_edit_action that applies the action to the edited item.
EditStep(action) ==
    /\ cart_edit_action(U1, action, MaxCartUnits)
    /\ fsm_data[U1].edit_item \in DKeys(get_cart(fsm_data[U1]))

\* C9: for every cart and every item in it, +1 on the item followed by -1 on
\* the item gives the cart back, item for item and quantity for quantity:
\* both for the two edits computed on any cart the user holds and for the
\* -1 applied to the cart a +1 step has just stored.
C9_PlusThenMinus ==
    /\ [](LET cart == get_cart(fsm_data[U1])
          IN \A item \in DKeys(cart) :
                cart_after_action(cart_after_action(cart, item, CART_ACT_PLUS),
                                  item, CART_ACT_MINUS) = cart)
    /\ [][EditStep(CART_ACT_PLUS) =>
             cart_after_action(get_cart(fsm_data'[U1]), fsm_data[U1].edit_item,
                               CART_ACT_MINUS) = get_cart(fsm_data[U1])]_vars

\* A +1 step has just raised an item of a two-item cart.
C9_Witness ==
    /\ reply[U1].h = "cart_edit_action"
    /\ reply[U1].text = CART_ACT_PLUS
    /\ reply[U1].kind = "cart"
    /\ Len(get_cart(fsm_data[U1])) = 2
    /\ DGet(get_cart(fsm_data[U1]), fsm_data[U1].edit_item, 0) >= 2

\* What removing the edited item must do to the cart and to its total.
ItemRemoved ==
    LET before == get_cart(fsm_data[U1])
        after == get_cart(fsm_data'[U1])
        item == fsm_data[U1].edit_item
        menu == get_menu(cafe_id_of(U1))
    IN /\ DKeys(after) = DKeys(before) \ {item}
       /\ \A d \in DKeys(after) : DGet(after, d, 0) = DGet(before, d, 0)
       /\ cart_total(after, menu)
              = cart_total(before, menu) - FGet(menu, item, 0) * DGet(before, item, 0)
       /\ reply'[U1].total = cart_total(after, menu)

\* C10: -1 on an item of quantity 1, and remove on an item of any quantity,
\* take the item out of the cart and leave every other item as it was; the
\* total drops by the item's price times its old quantity.
C10_Removal ==
    [][/\ (EditStep(CART_ACT_MINUS)
             /\ DGet(get_cart(fsm_data[U1]), fsm_data[U1].edit_item, 0) = 1) => ItemRemoved
       /\ EditStep(CART_ACT_DEL) => ItemRemoved]_vars

\* A remove took an item of quantity above 1 out of a cart that keeps the
\* other item: the total shown is the price of what is left.
C10_Witness ==
    /\ reply[U1].h = "cart_edit_action"
    /\ reply[U1].text = CART_ACT_DEL
    /\ reply[U1].kind = "cart"
    /\ fsm_data[U1].edit_item = "Latte"
    /\ get_cart(fsm_data[U1]) = <<[k |-> "Mocha", v |-> 2]>>
    /\ reply[U1].total = 2 * CAFES[Cafe1].menu["Mocha"]

(***************************************************************************)
(* Properties of concurrent finalize tasks.                                *)
(***************************************************************************)
Recorded(c) == {t \in Tasks : task[t].cafe_id = c /\ task[t].pc \in {"notify", "done"}
                              /\ task[t].passed}

Notified(c) == {t \in Tasks : task[t].cafe_id = c /\ task[t].outcome = "accepted"}

\* C2: the check reads the marker and a later step writes it whatever the
\* marker has become, so every task that passed the check records its order:
\* a task that finishes after passing is accepted, each such task adds one
\* to the order counter and one notification, and two tasks of one user that
\* both read the marker before either wrote it both record.
C2_DoubleSubmission ==
    /\ \A t \in Tasks : (task[t].pc = "done" /\ task[t].passed) => task[t].outcome = "accepted"
    /\ \A c \in CafeIds :
          /\ stats[c].total_orders = Cardinality(Recorded(c))
          /\ admin_inbox[c] = Cardinality(Notified(c))
    /\ (\A t \in Tasks : task[t].user = U1 /\ task[t].pc = "done" /\ task[t].passed)
          => /\ stats[Cafe1].total_orders = Cardinality(Tasks)
             /\ admin_inbox[Cafe1] = Cardinality(Tasks)

\* Two orders of one user recorded and notified, their markers written
\* less than one window apart.
C2_Witness ==
    /\ \A t \in Tasks : task[t].user = U1 /\ task[t].outcome = "accepted"
    /\ \A t1, t2 \in Tasks : task[t1].ts - task[t2].ts < task[t1].rl
    /\ stats[Cafe1].total_orders = 2
    /\ admin_inbox[Cafe1] = 2
    /\ profile[Cafe1][U1].total_orders = 2

(***************************************************************************)
(* Properties of the conversation protocol.                                *)
(***************************************************************************)
Cart(u) == get_cart(fsm_data[u])

\* The step is handler h answering text t.
Handled(h, t) == reply'[U1].h = h /\ reply'[U1].text = t

\* The last answer was process_quantity's answer to "cancel".
QuantityCancelled == reply[U1].h = "process_quantity" /\ reply[U1].text = BTN_CANCEL

\* C11: while a quantity is awaited, "cancel" discards the pending item and
\* moves to the cart view with the cart unchanged, and a quantity sent after
\* the cancel does not add the cancelled item.
C11_AsStated ==
    [][/\ process_quantity(U1, BTN_CANCEL, MaxFlowUnits)
          => /\ fsm_state'[U1] = "cart_view"
             /\ fsm_data'[U1].current_drink = ""
             /\ Cart(U1)' = Cart(U1)
       /\ QuantityCancelled /\ process_quantity(U1, "1", MaxFlowUnits)
          => Cart(U1)' = Cart(U1)]_vars

\* The quantity handler accepts text t: a quantity is awaited, the pending
\* item is in the menu and the text starts with a digit from 1 to 5.
QuantityAccepted(t) ==
    /\ fsm_state[U1] = "waiting_for_quantity"
    /\ t # BTN_CANCEL
    /\ fsm_data[U1].current_drink \in DOMAIN get_menu(cafe_id_of(U1))
    /\ first_char_int(t) \in QTY_MIN..QTY_MAX

\* C12: when a quantity is awaited for a pending item d of the menu, an
\* accepted quantity q is in 1..5, the cart afterwards is the cart before
\* except that d maps to its old quantity (0 if absent) plus q, no other
\* entry changes, and the conversation moves to the cart view; a text that
\* is not accepted leaves the cart as it was.
C12_QuantityMerges ==
    [][\A t \in CartTexts :
         process_quantity(U1, t, MaxCartUnits) =>
           LET d == fsm_data[U1].current_drink
               q == first_char_int(t)
           IN IF QuantityAccepted(t)
              THEN /\ q \in 1..5
                   /\ fsm_state'[U1] = "cart_view"
                   /\ DKeys(Cart(U1)') = DKeys(Cart(U1)) \cup {d}
                   /\ DGet(Cart(U1)', d, 0) = DGet(Cart(U1), d, 0) + q
                   /\ \A e \in DKeys(Cart(U1)) \ {d} :
                        DGet(Cart(U1)', e, 0) = DGet(Cart(U1), e, 0)
              ELSE d \in DOMAIN get_menu(cafe_id_of(U1)) =>
                     Cart(U1)' = Cart(U1) /\ fsm_state'[U1] = fsm_state[U1]]_vars

\* Two more Latte were added to a cart that held one Latte and one Mocha.
C12_Witness ==
    /\ reply[U1].h = "process_quantity" /\ reply[U1].kind = "added" /\ reply[U1].text = "2"
    /\ fsm_data[U1].current_drink = "Latte"
    /\ fsm_state[U1] = "cart_view"
    /\ DGet(Cart(U1), "Latte", 0) = 3
    /\ DGet(Cart(U1), "Mocha", 0) = 1

IsOpen(u) == cafe_open(cafe_or_default(cafe_id_of(u)))

\* Text t is a blocked action: a menu item or the checkout button while the
\* cafe is closed, or the checkout button with an empty cart.
Blocked(t) ==
    /\ fsm_state[U1] \in {"none", "cart_view", "waiting_for_quantity"}
    /\ \/ t \in DOMAIN get_menu(cafe_id_of(U1)) /\ ~IsOpen(U1)
       \/ t = BTN_CHECKOUT /\ (~IsOpen(U1) \/ Cart(U1) = EmptyDict)

\* C13: a blocked action changes nothing: after an item selection or a
\* checkout while the cafe is closed, or a checkout with an empty cart, the
\* conversation is in the state it was in and the cart is as it was.
C13_BlockedChangesNothing ==
    [][\A t \in FlowTexts :
         Blocked(t) /\ reply'[U1].text = t =>
           fsm_state'[U1] = fsm_state[U1] /\ fsm_data'[U1] = fsm_data[U1]]_vars

\* A checkout was refused for closure with a Latte in the cart.
C13_Witness ==
    /\ reply[U1].h = "checkout" /\ reply[U1].kind = "closed"
    /\ fsm_state[U1] = "cart_view"
    /\ DGet(Cart(U1), "Latte", 0) = 1
    /\ ~IsOpen(U1)

\* C14: when the cafe has closed after the user reached the confirmation or
\* the ready-time step, a confirm or a ready-time selection received while
\* closed does not progress: the state and the cart stay as they were and no
\* order is recorded.
C14_AsStated ==
    [][/\ ~IsOpen(U1) /\ confirm_order(U1, BTN_CONFIRM)
          => fsm_state'[U1] = fsm_state[U1] /\ Cart(U1)' = Cart(U1)
       /\ \A t \in ReadyTexts :
            ~IsOpen(U1) /\ ready_time(U1, t)
            => /\ fsm_state'[U1] = fsm_state[U1]
               /\ Cart(U1)' = Cart(U1)
               /\ UNCHANGED order_vars]_vars

\* The "orders enabled" flag of the user's cafe, as configured.
OrdersEnabled(u) == cafe_or_default(cafe_id_of(u)).orders_enabled

\* C15: while the "orders enabled" flag of the user's cafe is off, selecting
\* a menu item does not lead to the quantity step and a checkout does not
\* lead to the confirmation step.
C15_AsStated ==
    [][\A t \in RateTexts :
         ~OrdersEnabled(U1) =>
           /\ any_text(U1, t) => fsm_state'[U1] # "waiting_for_quantity"
           /\ checkout(U1, t) => fsm_state'[U1] # "waiting_for_confirmation"]_vars

\* The step ends in the cart view with the cart it started with.
BackToCart == fsm_state'[U1] = "cart_view" /\ Cart(U1)' = Cart(U1)

\* The step leaves the conversation where it was, cart included.
StaysPut == fsm_state'[U1] = fsm_state[U1] /\ Cart(U1)' = Cart(U1)

\* "cancel" at the ready-time step, "cancel" at either step of the item edit
\* and "done" at its action step each return to the cart view with the cart
\* as it was.
CancelsReturnToCart ==
    /\ ready_time(U1, BTN_CANCEL) => BackToCart
    /\ pick_item_to_edit(U1, BTN_CANCEL) => BackToCart
    /\ cart_edit_action(U1, BTN_CANCEL, MaxFlowUnits) => BackToCart
    /\ cart_edit_action(U1, CART_ACT_DONE, MaxFlowUnits) => BackToCart

ViewCartAtConfirmation ==
    fsm_state[U1] = "waiting_for_confirmation" /\ cart_button(U1, BTN_CART)

\* C16, as stated: "view cart" at the confirmation step, "cancel" at the
\* ready-time step and "done" or "cancel" in the item edit each move to the
\* cart view with the cart exactly as it was.
C16_AsStated ==
    [][/\ ViewCartAtConfirmation => BackToCart
       /\ CancelsReturnToCart]_vars

\* C16, amended: the same, except that "view cart" at the confirmation step
\* returns to the cart view only while the cafe is open; while it is closed
\* the user stays at the confirmation step, the cart as it was.
C16_ReturnKeepsCart ==
    [][/\ ViewCartAtConfirmation => IF IsOpen(U1) THEN BackToCart ELSE StaysPut
       /\ CancelsReturnToCart]_vars

\* "view cart" was refused for closure at the confirmation step, the Latte
\* still in the cart.
C16_Witness ==
    /\ reply[U1].h = "cart_button" /\ reply[U1].kind = "closed"
    /\ fsm_state[U1] = "waiting_for_confirmation"
    /\ DGet(Cart(U1), "Latte", 0) = 1

\* What finalize_order records for the user, the admin's inbox aside.
ledger == <<rate_limit, last_order, stats, customers, profile, drinks>>

\* The checkout is run only by a ready-time selection at the ready-time
\* step; that step is entered only by "confirm" at the confirmation step;
\* the confirmation step is entered only by a checkout request made with a
\* non-empty cart while the cafe is open.
ProtocolOrder ==
    /\ (reply'[U1].h = "finalize_order" /\ reply'[U1] # reply[U1]) \/ ledger' # ledger
       => /\ fsm_state[U1] = "waiting_for_ready_time"
          /\ \E t \in ReadyTexts : ready_time(U1, t)
    /\ fsm_state'[U1] = "waiting_for_ready_time" /\ fsm_state[U1] # "waiting_for_ready_time"
       => /\ fsm_state[U1] = "waiting_for_confirmation"
          /\ confirm_order(U1, BTN_CONFIRM)
    /\ fsm_state'[U1] = "waiting_for_confirmation" /\ fsm_state[U1] # "waiting_for_confirmation"
       => /\ checkout(U1, BTN_CHECKOUT)
          /\ Cart(U1) # EmptyDict
          /\ IsOpen(U1)

\* The buttons whose handlers are registered before the handlers of the
\* confirmation and ready-time steps, and so act at those steps too.
GlobalButtons ==
    {BTN_REPEAT_NO, BTN_REPEAT_LAST, BTN_CART, BTN_CLEAR_CART, BTN_CANCEL_ORDER,
     BTN_EDIT_CART, BTN_CHECKOUT}

\* The events the two steps are documented to accept.
StepEvents(st) ==
    IF st = "waiting_for_confirmation"
    THEN {BTN_CONFIRM, BTN_CART, BTN_CANCEL_ORDER}
    ELSE ReadyTexts \cup {BTN_CANCEL}

AtCheckoutStep == fsm_state[U1] \in {"waiting_for_confirmation", "waiting_for_ready_time"}

CancelStates ==
    {"waiting_for_quantity", "cart_edit_pick_item", "cart_edit_pick_action",
     "waiting_for_ready_time", "waiting_for_datetime", "waiting_for_people",
     "waiting_for_comment"}

\* C18: "cancel" in a state other than the cart root keeps the cart, and a
\* booking that is started and then cancelled keeps the cart built before it.
C18_AsStated ==
    [][/\ fsm_state[U1] \in CancelStates /\ reply'[U1].text = BTN_CANCEL
          => Cart(U1)' = Cart(U1)
       /\ booking_start(U1, BTN_BOOKING) => Cart(U1)' = Cart(U1)]_vars

(***************************************************************************)
(* Properties of the tenant resolution.                                    *)
(***************************************************************************)
PayloadCafe(p) == parse_start_payload(p)[1]

\* C19: when the payload of /start names a cafe of the directory, resolve
\* returns that cafe and the stored binding of the user is that cafe
\* afterwards, whatever it was before.
C19_KnownPayloadBinds ==
    [][\A u \in Users, p \in Payloads :
         cmd_start(u, p) /\ PayloadCafe(p) \in CafeIds
         => /\ resolve_cafe_id(u, PayloadCafe(p)) = PayloadCafe(p)
            /\ user_cafe'[u] = PayloadCafe(p)]_vars

\* u1, who had opened cafe_1 as a client, is bound to cafe_2 after /start
\* with the payload cafe_2.
C19_Witness ==
    /\ reply[U1].h = "cmd_start" /\ reply[U1].text = "cafe_2"
    /\ user_cafe[U1] = "cafe_2"
    /\ last_seen[Cafe1][U1] # -1

\* C20: when the payload is absent or names no cafe of the directory, resolve
\* returns the stored binding if it is a cafe of the directory and leaves it
\* as it is; otherwise it returns the default cafe and stores it as the
\* binding.  Whatever the payload and the binding, resolve returns a cafe of
\* the directory.
C20_FallbackBinding ==
    /\ [](\A u \in Users, p \in Payloads : resolve_cafe_id(u, PayloadCafe(p)) \in CafeIds)
    /\ [][\A u \in Users, p \in Payloads :
            cmd_start(u, p) /\ PayloadCafe(p) \notin CafeIds
            => IF user_cafe[u] \in CafeIds
               THEN /\ resolve_cafe_id(u, PayloadCafe(p)) = user_cafe[u]
                    /\ user_cafe'[u] = user_cafe[u]
               ELSE /\ resolve_cafe_id(u, PayloadCafe(p)) = DEFAULT_CAFE_ID
                    /\ user_cafe'[u] = DEFAULT_CAFE_ID]_vars

\* /start with the unknown payload cafe_9 left u1 bound to cafe_2, which is
\* not the default cafe.
C20_Witness ==
    /\ reply[U1].h = "cmd_start" /\ reply[U1].text = "cafe_9"
    /\ user_cafe[U1] = "cafe_2"
    /\ DEFAULT_CAFE_ID # "cafe_2"

(***************************************************************************)
(* Properties of the repeat offer.                                         *)
(***************************************************************************)
\* C21: a session start offers "repeat last order" only if an order
\* snapshot is stored for the cafe and the user and the stored last-seen day
\* is not the current day; a client session start stores the current day as
\* last-seen, so a session start on a day already stored is not offered it.
C21_OfferOncePerDay ==
    [][\A p \in Payloads :
         cmd_start(U1, p) =>
           LET c == user_cafe'[U1]
           IN /\ reply'[U1].kind = "offer_repeat"
                 => /\ last_order[c][U1].present
                    /\ last_seen[c][U1] # msk_day
              /\ reply'[U1].kind \in {"offer_repeat", "welcome", "closed"}
                 => last_seen'[c][U1] = msk_day
              /\ last_seen[c][U1] = msk_day => reply'[U1].kind # "offer_repeat"]_vars

\* On day 1 the customer who ordered and was last seen on day 0 was offered
\* the repeat, and day 1 is stored as last-seen.
C21_Witness ==
    /\ reply[U1].h = "cmd_start" /\ reply[U1].kind = "offer_repeat"
    /\ fsm_data[U1].repeat_offer_snapshot.present
    /\ msk_day = 1
    /\ last_seen[Cafe1][U1] = 1

\* The snapshot repeat_last works from: the offered one, else the stored one.
RepeatSnapshot(u) ==
    IF fsm_data[u].repeat_offer_snapshot.present
    THEN fsm_data[u].repeat_offer_snapshot
    ELSE last_order[cafe_id_of(u)][u]

\* C22: accepting "repeat last order" sets the cart to the snapshot's cart
\* restricted to the items of the current menu, with their snapshot
\* quantities, all positive, and moves to the cart view; if no snapshot item
\* is in the current menu the cart and the state are left unchanged.
C22_RepeatRestrictsToMenu ==
    [][repeat_last(U1, BTN_REPEAT_LAST, MaxCartUnits) /\ RepeatSnapshot(U1).present =>
         LET snap == RepeatSnapshot(U1).cart
             menu == get_menu(cafe_id_of(U1))
             kept == DKeys(snap) \cap DOMAIN menu
         IN IF kept = {}
            THEN StaysPut
            ELSE /\ fsm_state'[U1] = "cart_view"
                 /\ DKeys(Cart(U1)') = kept
                 /\ \A d \in kept : /\ DGet(Cart(U1)', d, 0) = DGet(snap, d, 0)
                                    /\ DGet(Cart(U1)', d, 0) > 0]_vars

\* The last order was two Latte and one Mocha; Mocha has left the menu and
\* the repeated cart holds the two Latte alone.
C22_Witness ==
    /\ reply[U1].h = "repeat_last" /\ reply[U1].kind = "cart"
    /\ fsm_state[U1] = "cart_view"
    /\ last_order[Cafe1][U1].cart = PriorCart
    /\ "Mocha" \notin DOMAIN get_menu(Cafe1)
    /\ Cart(U1) = <<[k |-> "Latte", v |-> 2]>>

(***************************************************************************)
(* Properties of what a checkout records.                                  *)
(***************************************************************************)
\* C23: a successful finalize stores, as the one snapshot of the cafe and
\* the user, the finalized cart with its total, whatever snapshot was stored
\* before, leaves every other snapshot alone, and leaves the conversation
\* with no state and an empty cart.
C23_SnapshotOverwritten ==
    [][FinalizeAccepted =>
         LET c == cafe_id_of(U1)
             cart == Cart(U1)
         IN /\ last_order'[c][U1] =
                 [present |-> TRUE, cart |-> cart,
                  total |-> PricedTotal(cart, get_menu(c)), ts |-> now]
            /\ \A c2 \in CafeIds, u \in Users :
                 <<c2, u>> # <<c, U1>> => last_order'[c2][u] = last_order[c2][u]
            /\ fsm_state'[U1] = "none"
            /\ Cart(U1)' = EmptyDict]_vars

\* The second order, one Latte, replaced the snapshot of a first order of
\* two Latte.
C23_Witness ==
    /\ reply[U1].kind = "accepted"
    /\ stats[Cafe1].total_orders = 2
    /\ FGet(stats[Cafe1].drink_cnt, "Latte", 0) = 3
    /\ last_order[Cafe1][U1].cart = <<[k |-> "Latte", v |-> 1]>>
    /\ fsm_state[U1] = "none"
    /\ Cart(U1) = EmptyDict

(***************************************************************************)
(* The order path while sends and writes can raise.                        *)
(***************************************************************************)
NextFault ==
    \/ \E t \in RateTexts :
          \/ any_text(U1, t)
          \/ process_quantity(U1, t, MaxRateUnits)
          \/ checkout(U1, t)
          \/ confirm_order(U1, t)
          \/ ready_time(U1, t)
          \/ error_handler(U1, t)
    \/ cmd_bind(DEFAULT_CAFE_ID)
    \/ fault_changes

SpecFault == Init /\ [][NextFault]_vars

(***************************************************************************)
(* C25 - C27: failures of sends and of store writes                        *)
(***************************************************************************)
\* A step of finalize_order for U1 that gets past the rate check.
FinalizePastRateCheck ==
    /\ FinalizeAttempt
    /\ ~is_rate_limited(rate_limit_get(U1), now,
                        cafe_rate_limit_seconds(cafe_or_default(cafe_id_of(U1))))

C26_AsStated ==
    [][(FinalizePastRateCheck /\ fault \cap {"stats_write", "profile_write"} # {}) =>
         /\ reply'[U1].kind = "accepted"
         /\ fsm_state'[U1] = "none"
         /\ Cart(U1)' = EmptyDict]_vars

\* C27 as stated: every text event handled ended with a message sent to the
\* user.
C27_AsStated == \A u \in Users : reply[u].kind # "no_answer"

(***************************************************************************)
(* The win-back slice: one customer of cafe_1 who ordered before or orders *)
(* for the first time, the sweep, and days passing.  Whether the customer  *)
(* opted out is set outside the bot, so it is drawn here.                  *)
(***************************************************************************)
InitSweep ==
    LET total == cart_total(PriorCart, CAFES[Cafe1].menu)
    IN /\ fsm_state = [u \in Users |-> "none"]
       /\ fsm_data = [u \in Users |-> EmptyData]
       /\ user_cafe = [u \in Users |-> IF u = U1 THEN Cafe1 ELSE ""]
       /\ redis_menu = [c \in CafeIds |-> IF c = Cafe1 THEN CAFES[Cafe1].menu ELSE NoKeys]
       /\ rate_limit = [u \in Users |-> NoMarker]
       /\ \E ordered \in BOOLEAN, opt_out \in {0, 1} :
            /\ ~ordered => opt_out = 0
            /\ last_order = [c \in CafeIds |-> [u \in Users |->
                                IF ordered /\ c = Cafe1 /\ u = U1
                                THEN order_snapshot(PriorCart, total, SweepStart)
                                ELSE NoSnapshot]]
            /\ stats = [c \in CafeIds |->
                           IF ordered /\ c = Cafe1
                           THEN stats_after(NoStats, PriorCart, CAFES[Cafe1].menu, total)
                           ELSE NoStats]
            /\ customers = [c \in CafeIds |-> IF ordered /\ c = Cafe1 THEN {U1} ELSE {}]
            /\ profile = [c \in CafeIds |-> [u \in Users |->
                             IF ordered /\ c = Cafe1 /\ u = U1
                             THEN [profile_after(NoProfile, PriorCart, total, SweepStart)
                                      EXCEPT !.offers_opt_out = opt_out]
                             ELSE NoProfile]]
            /\ drinks = [c \in CafeIds |-> [u \in Users |->
                            IF ordered /\ c = Cafe1 /\ u = U1 THEN drinks_after(EmptyDict, PriorCart)
                            ELSE EmptyDict]]
            /\ admin_inbox = [c \in CafeIds |-> IF ordered /\ c = Cafe1 THEN 1 ELSE 0]
       /\ last_seen = [c \in CafeIds |-> [u \in Users |-> -1]]
       /\ staff_inbox = [c \in CafeIds |-> 0]
       /\ staff_group = [c \in CafeIds |-> FALSE]
       /\ fault = {}
       /\ outreach = {}
       /\ loop_pc = "sweep"
       /\ now = SweepStart
       /\ msk_hour = DEFAULT_WORK_START
       /\ msk_day = 0
       /\ reply = [u \in Users |-> NoReply]
       /\ task = [t \in Tasks |-> IdleTask]

NextSweep ==
    \/ \E t \in RateTexts :
          \/ any_text(U1, t)
          \/ process_quantity(U1, t, QTY_MIN)
          \/ checkout(U1, t)
          \/ confirm_order(U1, t)
          \/ ready_time(U1, t)
    \/ \E sent \in [Users -> SendOutcomes] : smart_return_check_and_send(sent)
    \/ time_passes
    \/ send_hour_passes

SpecSweep == InitSweep /\ [][NextSweep]_vars

(***************************************************************************)
(* C24: the customer profile                                               *)
(***************************************************************************)
\* C24: a successful checkout sets the first-order time only when the
\* profile is new, adds one to the order count and the order's total to the
\* spend, overwrites the last-order fields, leaves an existing opt-out flag
\* and last-outreach time as they are, and leaves the user in the cafe's
\* customers set; no step at all changes the first-order time of an
\* existing profile.
C24_ProfileUpdate ==
    /\ [][FinalizeAccepted =>
            LET c == cafe_id_of(U1)
                p == profile[c][U1]
                q == profile'[c][U1]
                total == PricedTotal(Cart(U1), get_menu(c))
            IN /\ q.present
               /\ ~p.present => q.first_order_ts = now
               /\ q.total_orders = p.total_orders + 1
               /\ q.total_spent = p.total_spent + total
               /\ q.last_order_ts = now
               /\ q.last_order_sum = total
               /\ q.last_drink = Head(Cart(U1)).k
               /\ p.present => /\ q.offers_opt_out = p.offers_opt_out
                               /\ q.last_trigger_ts = p.last_trigger_ts
               /\ U1 \in customers'[c]]_vars
    /\ [][\A c \in CafeIds, u \in Users :
            profile[c][u].present =>
               /\ profile'[c][u].present
               /\ profile'[c][u].first_order_ts = profile[c][u].first_order_ts]_vars

\* A second order placed after an outreach: the outreach time is kept and
\* the first-order time is still that of the first order.
C24_Witness ==
    /\ reply[U1].kind = "accepted"
    /\ profile[Cafe1][U1].total_orders = 2
    /\ profile[Cafe1][U1].last_trigger_ts # 0
    /\ profile[Cafe1][U1].last_order_ts > profile[Cafe1][U1].last_trigger_ts
    /\ profile[Cafe1][U1].first_order_ts < profile[Cafe1][U1].last_trigger_ts
    /\ U1 \in customers[Cafe1]

(***************************************************************************)
(* C28 - C30: the win-back sweep                                           *)
(***************************************************************************)
\* The sweep tried to send to the customer: a message was delivered or the
\* customer was dropped from the set.
Attempted(c, u) ==
    \/ [cafe |-> c, user |-> u, ts |-> now] \in outreach' \ outreach
    \/ u \in customers[c] /\ u \notin customers'[c]

\* A step of the sweep.
SweepStep == \E sent \in [Users -> SendOutcomes] : smart_return_check_and_send(sent)

CycleSeconds == DEFAULT_RETURN_CYCLE_DAYS * DaySeconds

CooldownSeconds == RETURN_COOLDOWN_DAYS * DaySeconds

\* An outreach to the customer lies within the cooldown before now.
InCooldown(c, u) ==
    /\ profile[c][u].last_trigger_ts # 0
    /\ now - profile[c][u].last_trigger_ts < CooldownSeconds

\* The three conditions of the claim.
Eligible(c, u) ==
    /\ profile[c][u].offers_opt_out # 1
    /\ now - profile[c][u].last_order_ts >= CycleSeconds
    /\ ~InCooldown(c, u)

\* C28: a sweep sends to a known customer exactly when the customer has not
\* opted out, seven whole days have passed since the last order and no
\* outreach lies within the fourteen days before the sweep; a customer whom
\* only the recent order holds back is due from last_order_ts + 7 days on,
\* and one who is due stays due while no order is placed and the sweep does
\* not send to them.
C28_Eligibility ==
    /\ [][SweepStep =>
            \A c \in CafeIds : \A u \in customers[c] :
               Attempted(c, u) <=> Eligible(c, u)]_vars
    /\ [](\A c \in CafeIds : \A u \in customers[c] :
            (profile[c][u].offers_opt_out # 1 /\ ~InCooldown(c, u)) =>
               (return_due(c, u) <=> now >= profile[c][u].last_order_ts + CycleSeconds))
    /\ [][\A c \in CafeIds : \A u \in customers[c] :
            (/\ return_due(c, u)
             /\ ~Attempted(c, u)
             /\ profile'[c][u].last_order_ts = profile[c][u].last_order_ts)
            => return_due(c, u)']_vars

\* A message went out exactly seven days after the last order, and none
\* before it.
C28_Witness ==
    /\ outreach = {[cafe |-> Cafe1, user |-> U1,
                    ts |-> profile[Cafe1][U1].last_order_ts + CycleSeconds]}
    /\ profile[Cafe1][U1].last_trigger_ts = profile[Cafe1][U1].last_order_ts + CycleSeconds
    /\ now = profile[Cafe1][U1].last_trigger_ts

C30_AsStated ==
    [][\A sent \in [Users -> SendOutcomes] : smart_return_check_and_send(sent) =>
          \A c \in CafeIds, u \in Users :
             /\ (return_due(c, u) /\ sent[u] = "ok") =>
                   /\ profile'[c][u].last_trigger_ts = now
                   /\ u \in customers'[c]
             /\ (u \in customers[c] /\ u \notin customers'[c]) => sent[u] = "undeliverable"
             /\ u \notin customers[c] => outreach' \ outreach \subseteq
                                            {m \in outreach' : m.user # u \/ m.cafe # c}]_vars

(***************************************************************************)
(* The sweep when calls of one customer's turn can raise.                  *)
(***************************************************************************)
\* What one customer's turn does: the three outcomes of the send, or a raise
\* of the profile read, of the drink-frequency read, or of the stamp write
\* that follows a delivered message.
TurnOutcomes == SendOutcomes \cup {"profile_raises", "favorite_raises", "stamp_raises"}

\* CAFES.keys() is walked in the order of the configuration.
CafeRank(c) == IF c = DEFAULT_CAFE_ID THEN 1 ELSE 2

\* The orders in which smembers can hand out the users of one cafe.
UserOrders ==
    {s \in [1..Cardinality(Users) -> Users] : \A i, j \in DOMAIN s : i # j => s[i] # s[j]}

PlaceIn(s, u) == CHOOSE i \in DOMAIN s : s[i] = u

\* The turn of (c1, u1) comes before the turn of (c2, u2).
TurnBefore(ord, c1, u1, c2, u2) ==
    \/ CafeRank(c1) < CafeRank(c2)
    \/ c1 = c2 /\ PlaceIn(ord[c1], u1) < PlaceIn(ord[c1], u2)

\* The turn gets as far as get_favorite_drink: the profile was read and the
\* customer passes every "continue".
turn_due(c, u, out) == return_due(c, u) /\ out[u] # "profile_raises"

\* get_favorite_drink is called outside every try: its exception leaves
\* smart_return_check_and_send.
turn_aborts(c, u, out) == turn_due(c, u, out) /\ out[u] = "favorite_raises"

\* The loop reaches the turn of (c, u).
turn_reached(ord, c, u, out) ==
    \A c0 \in CafeIds, u0 \in Users :
       (u0 \in customers[c0] /\ TurnBefore(ord, c0, u0, c, u)) => ~turn_aborts(c0, u0, out)

\* bot.send_message is called and returns.
turn_delivers(ord, c, u, out) ==
    /\ turn_reached(ord, c, u, out)
    /\ turn_due(c, u, out)
    /\ out[u] \in {"ok", "stamp_raises"}

\* The except branch runs: srem.
turn_drops(ord, c, u, out) ==
    /\ turn_reached(ord, c, u, out)
    /\ turn_due(c, u, out)
    /\ out[u] \in {"undeliverable", "transient", "stamp_raises"}

\* The send pass, from the first cafe to the last turn the loop reaches.
sweep_pass(ord, out) ==
    /\ outreach' = outreach \cup
           {[cafe |-> x[1], user |-> x[2], ts |-> now] :
              x \in {y \in CafeIds \X Users : turn_delivers(ord, y[1], y[2], out)}}
    /\ profile' = [c \in CafeIds |-> [u \in Users |->
                      IF turn_delivers(ord, c, u, out) /\ out[u] = "ok"
                      THEN [profile[c][u] EXCEPT !.last_trigger_ts = now]
                      ELSE profile[c][u]]]
    /\ customers' = [c \in CafeIds |-> {u \in customers[c] : ~turn_drops(ord, c, u, out)}]
    /\ UNCHANGED <<fsm_state, fsm_data, user_cafe, redis_menu, rate_limit, last_order, stats,
                   drinks, admin_inbox, staff_inbox, last_seen, staff_group, fault,
                   clock_vars, reply, task>>

smart_return_check_and_send_raising(ord, out) ==
    /\ in_send_window_msk
    /\ sweep_pass(ord, out)
    /\ UNCHANGED loop_pc

\* The exception of a drink-frequency read leaves smart_return_check_and_send.
sweep_raises(ord, out) ==
    /\ in_send_window_msk
    /\ \E c \in CafeIds : \E u \in customers[c] :
          turn_reached(ord, c, u, out) /\ turn_aborts(c, u, out)

\* Mutation: the call of the sweep is not inside a try.
smart_return_loop_no_try(ord, out) ==
    /\ loop_pc = "sweep"
    /\ IF in_send_window_msk
       THEN sweep_pass(ord, out)
       ELSE UNCHANGED <<fsm_state, fsm_data, user_cafe, redis_menu, order_vars, last_seen,
                        staff_group, fault, outreach, clock_vars, reply, task>>
    /\ loop_pc' = IF sweep_raises(ord, out) THEN "dead" ELSE "sleep"

\* One turn of the loop's while: the sweep is called, returns at once
\* outside the send window, its exception is logged, and the loop goes to
\* sleep.
smart_return_loop(ord, out) ==
    /\ loop_pc = "sweep"
    /\ IF in_send_window_msk
       THEN sweep_pass(ord, out)
       ELSE UNCHANGED <<fsm_state, fsm_data, user_cafe, redis_menu, order_vars, last_seen,
                        staff_group, fault, outreach, clock_vars, reply, task>>
    /\ loop_pc' = "sleep"

\* asyncio.sleep(RETURN_CHECK_EVERY_SECONDS) returns.
loop_wakes ==
    /\ loop_pc = "sleep"
    /\ now + RETURN_CHECK_EVERY_SECONDS <=
          SweepStart + DEFAULT_RETURN_CYCLE_DAYS * DaySeconds + MaxWakes * RETURN_CHECK_EVERY_SECONDS
    /\ now' = now + RETURN_CHECK_EVERY_SECONDS
    /\ loop_pc' = "sweep"
    /\ UNCHANGED <<fsm_state, fsm_data, user_cafe, redis_menu, order_vars, last_seen,
                   staff_group, fault, outreach, msk_hour, msk_day, reply, task>>

\* Both users ordered at cafe_1 and u2 also at the other cafe; the bot is
\* running from the time start.
InitIsolationAt(start) ==
    LET total == cart_total(PriorCart, CAFES[Cafe1].menu)
        Known(c, u) == c = Cafe1 \/ u # U1
    IN /\ fsm_state = [u \in Users |-> "none"]
       /\ fsm_data = [u \in Users |-> EmptyData]
       /\ user_cafe = [u \in Users |-> Cafe1]
       /\ redis_menu = [c \in CafeIds |-> CAFES[c].menu]
       /\ rate_limit = [u \in Users |-> NoMarker]
       /\ last_order = [c \in CafeIds |-> [u \in Users |->
                           IF Known(c, u) THEN order_snapshot(PriorCart, total, SweepStart)
                           ELSE NoSnapshot]]
       /\ stats = [c \in CafeIds |->
                      IF c = Cafe1
                      THEN stats_after(stats_after(NoStats, PriorCart, CAFES[c].menu, total),
                                       PriorCart, CAFES[c].menu, total)
                      ELSE stats_after(NoStats, PriorCart, CAFES[c].menu, total)]
       /\ customers = [c \in CafeIds |-> {u \in Users : Known(c, u)}]
       /\ profile = [c \in CafeIds |-> [u \in Users |->
                        IF Known(c, u) THEN profile_after(NoProfile, PriorCart, total, SweepStart)
                        ELSE NoProfile]]
       /\ drinks = [c \in CafeIds |-> [u \in Users |->
                       IF Known(c, u) THEN drinks_after(EmptyDict, PriorCart) ELSE EmptyDict]]
       /\ admin_inbox = [c \in CafeIds |-> IF c = Cafe1 THEN 2 ELSE 1]
       /\ last_seen = [c \in CafeIds |-> [u \in Users |-> -1]]
       /\ staff_inbox = [c \in CafeIds |-> 0]
       /\ staff_group = [c \in CafeIds |-> FALSE]
       /\ fault = {}
       /\ outreach = {}
       /\ loop_pc = "sweep"
       /\ now = start
       /\ msk_hour = DEFAULT_WORK_START
       /\ msk_day = 0
       /\ reply = [u \in Users |-> NoReply]
       /\ task = [t \in Tasks |-> IdleTask]

InitIsolation == InitIsolationAt(SweepStart)

NextIsolation ==
    \/ \E ord \in [CafeIds -> UserOrders], out \in [Users -> TurnOutcomes] :
          smart_return_check_and_send_raising(ord, out)
    \/ time_passes
    \/ send_hour_passes

SpecIsolation == InitIsolation /\ [][NextIsolation]_vars

\* The loop from six hours before the customers become due.
InitLoop ==
    InitIsolationAt(SweepStart + DEFAULT_RETURN_CYCLE_DAYS * DaySeconds
                      - RETURN_CHECK_EVERY_SECONDS)

NextLoop ==
    \/ \E ord \in [CafeIds -> UserOrders], out \in [Users -> TurnOutcomes] :
          smart_return_loop(ord, out)
    \/ loop_wakes
    \/ send_hour_passes

SpecLoop == InitLoop /\ [][NextLoop]_vars

(***************************************************************************)
(* C31: failure isolation in the sweep                                     *)
(***************************************************************************)
\* C31 as stated: whatever raises in the turn of one customer, every other
\* customer who is due and whose own turn raises nothing gets the message
\* in the same sweep.
C31_AsStated ==
    [][\A ord \in [CafeIds -> UserOrders], out \in [Users -> TurnOutcomes] :
          smart_return_check_and_send_raising(ord, out) =>
             \A c \in CafeIds, u \in Users :
                (return_due(c, u) /\ out[u] = "ok") =>
                   [cafe |-> c, user |-> u, ts |-> now] \in outreach']_vars

(***************************************************************************)
(* C32: the send window and the loop                                       *)
(***************************************************************************)
\* C32: a sweep called outside the hours 10 to 19 delivers nothing and
\* writes nothing; every turn of the loop, with a sweep that was skipped,
\* that ran or that raised, ends with the loop asleep, the loop never dies,
\* and each sleep ends, one interval later, with the next call of the sweep.
C32_WindowAndLoop ==
    /\ [][loop_pc = "sweep" /\ loop_pc' # "sweep" =>
            /\ loop_pc' = "sleep"
            /\ ~in_send_window_msk =>
                  UNCHANGED <<fsm_state, fsm_data, user_cafe, redis_menu, order_vars,
                              last_seen, staff_group, fault, outreach, clock_vars,
                              reply, task>>]_vars
    /\ [](loop_pc \in {"sweep", "sleep"})
    /\ [][outreach' # outreach => in_send_window_msk]_vars
    /\ [][loop_pc = "sleep" /\ loop_pc' # "sleep" =>
            loop_pc' = "sweep" /\ now' = now + RETURN_CHECK_EVERY_SECONDS]_vars

\* The loop is asleep after a sweep that delivered to one customer and left
\* two who were due without a message, and after a later sweep outside the
\* send window.
C32_Witness ==
    /\ loop_pc = "sleep"
    /\ Cardinality(outreach) = 1
    /\ \A c \in CafeIds : \A u \in customers[c] : profile[c][u].last_trigger_ts = 0 => return_due(c, u)
    /\ \E c \in CafeIds : \E u \in customers[c] : profile[c][u].last_trigger_ts = 0
    /\ \E m \in outreach : m.ts < now
    /\ ~in_send_window_msk

(***************************************************************************)
(* The favorite drink of an outreach message.                              *)
(***************************************************************************)
\* The word the message uses when nothing is known ("drink", in Russian).
FAVORITE_FALLBACK == "napitok"

\* Mutation: a later key with the same count replaces the best one.
RECURSIVE favorite_scan_last(_, _, _)
favorite_scan_last(data, best_name, best_cnt) ==
    IF data = << >>
    THEN best_name
    ELSE IF Head(data).v >= best_cnt
         THEN favorite_scan_last(Tail(data), Head(data).k, Head(data).v)
         ELSE favorite_scan_last(Tail(data), best_name, best_cnt)

get_favorite_drink_last_max(data) == favorite_scan_last(data, "", -1)

\* The for loop of get_favorite_drink over data.items().
RECURSIVE favorite_scan(_, _, _)
favorite_scan(data, best_name, best_cnt) ==
    IF data = << >>
    THEN best_name
    ELSE IF Head(data).v > best_cnt
         THEN favorite_scan(Tail(data), Head(data).k, Head(data).v)
         ELSE favorite_scan(Tail(data), best_name, best_cnt)

get_favorite_drink(data) == favorite_scan(data, "", -1)

\* get_favorite_drink(...) or profile.get("last_drink") or the fallback word
favorite_of(cafe_id, u) ==
    IF get_favorite_drink(drinks[cafe_id][u]) # ""
    THEN get_favorite_drink(drinks[cafe_id][u])
    ELSE IF profile[cafe_id][u].last_drink # ""
         THEN profile[cafe_id][u].last_drink
         ELSE FAVORITE_FALLBACK

\* The sweep composes the message for a customer; the favorite it names is
\* kept as the text of the message.
compose_outreach(cafe_id, u) ==
    /\ u \in customers[cafe_id]
    /\ reply' = [reply EXCEPT ![u] = Answer("smart_return_check_and_send",
                                            favorite_of(cafe_id, u), "outreach", 0)]
    /\ UNCHANGED <<fsm_state, fsm_data, user_cafe, redis_menu, order_vars, last_seen,
                   clock_vars, world_vars, task>>

FavoriteDrinks == Drinks \cup {"Tea"}

\* Every drink-frequency hash over the drinks, in every key order.
FrequencyHashes ==
    {d \in UNION {[1..n -> [k : FavoriteDrinks, v : 1..MaxUnits]] : n \in 0..Cardinality(FavoriteDrinks)} :
        \A i, j \in DOMAIN d : i # j => d[i].k # d[j].k}

\* One customer of cafe_1 with any drink frequencies and any last drink in
\* the profile.
InitFavorite ==
    /\ fsm_state = [u \in Users |-> "none"]
    /\ fsm_data = [u \in Users |-> EmptyData]
    /\ user_cafe = [u \in Users |-> IF u = U1 THEN Cafe1 ELSE ""]
    /\ redis_menu = [c \in CafeIds |-> NoKeys]
    /\ rate_limit = [u \in Users |-> NoMarker]
    /\ last_order = [c \in CafeIds |-> [u \in Users |-> NoSnapshot]]
    /\ stats = [c \in CafeIds |-> NoStats]
    /\ customers = [c \in CafeIds |-> IF c = Cafe1 THEN {U1} ELSE {}]
    /\ \E last \in FavoriteDrinks \cup {""} :
          profile = [c \in CafeIds |-> [u \in Users |->
                        IF c = Cafe1 /\ u = U1
                        THEN [NoProfile EXCEPT !.present = TRUE, !.first_order_ts = SweepStart,
                                               !.last_order_ts = SweepStart, !.last_drink = last,
                                               !.total_orders = 1]
                        ELSE NoProfile]]
    /\ \E data \in FrequencyHashes :
          drinks = [c \in CafeIds |-> [u \in Users |->
                       IF c = Cafe1 /\ u = U1 THEN data ELSE EmptyDict]]
    /\ last_seen = [c \in CafeIds |-> [u \in Users |-> -1]]
    /\ admin_inbox = [c \in CafeIds |-> 0]
    /\ staff_inbox = [c \in CafeIds |-> 0]
    /\ staff_group = [c \in CafeIds |-> FALSE]
    /\ fault = {}
    /\ outreach = {}
    /\ loop_pc = "sweep"
    /\ now = SweepStart
    /\ msk_hour = RETURN_SEND_FROM_HOUR
    /\ msk_day = 0
    /\ reply = [u \in Users |-> NoReply]
    /\ task = [t \in Tasks |-> IdleTask]

NextFavorite == \E c \in CafeIds, u \in Users : compose_outreach(c, u)

SpecFavorite == InitFavorite /\ [][NextFavorite]_vars

(***************************************************************************)
(* C33: the favorite drink                                                 *)
(***************************************************************************)
\* The place of a key in the drink frequencies.
KeyPlace(data, key) == CHOOSE i \in DOMAIN data : data[i].k = key

\* C33: the favorite named in an outreach message is a drink of the
\* customer's frequencies whose count no other drink exceeds and which
\* comes first among the drinks with that count; with no frequencies it is
\* the last drink of the profile, and the fallback word when there is none.
C33_FavoriteDrink ==
    \A c \in CafeIds, u \in Users :
       reply[u].kind = "outreach" /\ u \in customers[c] =>
          LET data == drinks[c][u]
              fav == reply[u].text
          IN IF data # EmptyDict
             THEN /\ fav \in DKeys(data)
                  /\ \A key \in DKeys(data) :
                        /\ DGet(data, key, 0) <= DGet(data, fav, 0)
                        /\ KeyPlace(data, key) < KeyPlace(data, fav) =>
                              DGet(data, key, 0) < DGet(data, fav, 0)
             ELSE IF profile[c][u].last_drink # ""
             THEN fav = profile[c][u].last_drink
             ELSE fav = FAVORITE_FALLBACK

\* The message names the first of two drinks with the same, highest count,
\* although a drink with a lower count comes before both.
C33_Witness ==
    /\ reply[U1].kind = "outreach"
    /\ drinks[Cafe1][U1] = <<[k |-> "Tea", v |-> 1], [k |-> "Mocha", v |-> 2],
                             [k |-> "Latte", v |-> 2]>>
    /\ reply[U1].text = "Mocha"

(***************************************************************************)
(* C34: the sweep and the ordering path                                    *)
(***************************************************************************)
\* A profile without the field the sweep writes.
WithoutStamp(p) == [p EXCEPT !.last_trigger_ts = 0]

\* C34: a sweep changes no conversation state, cart, marker, snapshot,
\* counter, drink frequency or answer, and of the profiles only
\* last_trigger_ts; and whatever the sweep has written, a finalize is
\* accepted exactly when the marker does not limit it, answers the total
\* priced from the cart and the menu, leaves the conversation idle, and
\* writes to the profile what it writes to a profile the sweep never
\* stamped.
C34_SweepDoesNotInterfere ==
    /\ [][SweepStep =>
            /\ UNCHANGED <<fsm_state, fsm_data, user_cafe, redis_menu, rate_limit, last_order,
                           stats, drinks, admin_inbox, staff_inbox, last_seen, reply, task>>
            /\ \A c \in CafeIds, u \in Users :
                  WithoutStamp(profile'[c][u]) = WithoutStamp(profile[c][u])]_vars
    /\ [][FinalizeAttempt =>
            LET c == cafe_id_of(U1)
                total == PricedTotal(Cart(U1), get_menu(c))
            IN IF MarkerLimits(U1)
               THEN /\ reply'[U1].kind = "rate_limited"
                    /\ fsm_state'[U1] = "none"
                    /\ profile' = profile
                    /\ stats' = stats
               ELSE /\ reply'[U1].kind = "accepted"
                    /\ reply'[U1].total = total
                    /\ fsm_state'[U1] = "none"
                    /\ stats'[c].total_orders = stats[c].total_orders + 1
                    /\ WithoutStamp(profile'[c][U1]) =
                          WithoutStamp(profile_after(WithoutStamp(profile[c][U1]),
                                                     Cart(U1), total, now))
                    /\ profile[c][U1].present =>
                          profile'[c][U1].last_trigger_ts = profile[c][U1].last_trigger_ts]_vars

\* An order was accepted a cooldown or more after the sweep had stamped the
\* customer's profile.
C34_Witness ==
    /\ reply[U1].kind = "accepted"
    /\ profile[Cafe1][U1].last_trigger_ts # 0
    /\ profile[Cafe1][U1].last_order_ts >=
          profile[Cafe1][U1].last_trigger_ts + CooldownSeconds
    /\ profile[Cafe1][U1].last_order_ts = now
    /\ outreach # {}

(***************************************************************************)
(* The steps that validate what the user typed.                            *)
(***************************************************************************)
ValidateTexts ==
    {"Latte", "0", "2", "6", "12", "hello", "15.02 19:00", "31.02 19:00", BTN_BOOKING, BTN_CANCEL,
     BTN_CART, BTN_CLEAR_CART}

NextValidate ==
    \/ \E t \in ValidateTexts :
          \/ any_text(U1, t)
          \/ process_quantity(U1, t, MaxFlowUnits)
          \/ booking_start(U1, t)
          \/ booking_datetime(U1, t)
          \/ booking_people(U1, t)
          \/ booking_finish(U1, t)
          \/ cart_button(U1, t)
          \/ clear_cart(U1, t)
    \/ cmd_bind(DEFAULT_CAFE_ID)
    \/ hour_passes

SpecValidate == Init /\ [][NextValidate]_vars

(***************************************************************************)
(* C35: validation errors                                                  *)
(***************************************************************************)
\* C35 as stated: a quantity that is not a whole number from 1 to 5, a
\* date/time that does not match the pattern or is no calendar date, and a
\* party size that is not a whole number from 1 to 10 leave the state and
\* the data of the conversation as they were.
C35_AsStated ==
    [][\A t \in ValidateTexts \ {BTN_CANCEL} :
          (\/ /\ process_quantity(U1, t, MaxFlowUnits)
              /\ ~(QTY_MIN <= whole_text_int(t) /\ whole_text_int(t) <= QTY_MAX)
           \/ /\ booking_datetime(U1, t)
              /\ booking_parse_datetime(t).res # "ok"
           \/ /\ booking_people(U1, t)
              /\ ~(1 <= whole_text_int(t) /\ whole_text_int(t) <= 10))
          => /\ fsm_state'[U1] = fsm_state[U1]
             /\ fsm_data'[U1] = fsm_data[U1]]_vars

(***************************************************************************)
(* C36: the booking sub-flow                                               *)
(***************************************************************************)
BookingStates == {"waiting_for_datetime", "waiting_for_people", "waiting_for_comment"}

\* A step of U1 that completes a booking.
BookingCompleted ==
    /\ fsm_state[U1] = "waiting_for_comment"
    /\ \E t \in ValidateTexts \ {BTN_CANCEL} : booking_finish(U1, t)

\* C36: the party-size step is entered only from the date/time step with a
\* date/time that parses, the comment step only from the party-size step
\* with a size from 1 to 10, and a booking completes only at the comment
\* step; the completion sends one message to the cafe's admin and one to the
\* staff group when it is bound, and leaves the conversation idle; no step
\* taken in a booking state changes a counter, a profile, the customers, a
\* drink frequency, a snapshot or a marker.
C36_BookingLinear ==
    /\ [][fsm_state'[U1] = "waiting_for_people" /\ fsm_state[U1] # "waiting_for_people" =>
            /\ fsm_state[U1] = "waiting_for_datetime"
            /\ \E t \in ValidateTexts :
                  /\ reply'[U1].text = t
                  /\ booking_parse_datetime(t).res = "ok"
                  /\ fsm_data'[U1].booking_dt = booking_parse_datetime(t).dt]_vars
    /\ [][fsm_state'[U1] = "waiting_for_comment" /\ fsm_state[U1] # "waiting_for_comment" =>
            /\ fsm_state[U1] = "waiting_for_people"
            /\ fsm_data'[U1].booking_people \in 1..10
            /\ fsm_data'[U1].booking_dt = fsm_data[U1].booking_dt]_vars
    /\ [](fsm_state[U1] \in {"waiting_for_people", "waiting_for_comment"} =>
            fsm_data[U1].booking_dt # "")
    /\ [](fsm_state[U1] = "waiting_for_comment" => fsm_data[U1].booking_people \in 1..10)
    /\ [][reply'[U1].kind \in {"booked", "booked_closed"} /\ reply'[U1] # reply[U1] =>
            BookingCompleted]_vars
    /\ [][BookingCompleted =>
            LET c == cafe_id_of(U1)
            IN /\ admin_inbox' = [admin_inbox EXCEPT ![c] = @ + 1]
               /\ staff_inbox' = IF staff_group[c] THEN [staff_inbox EXCEPT ![c] = @ + 1]
                                 ELSE staff_inbox
               /\ reply'[U1].kind \in {"booked", "booked_closed"}
               /\ fsm_state'[U1] = "none"
               /\ fsm_data'[U1] = EmptyData]_vars
    /\ [][fsm_state[U1] \in BookingStates \/ fsm_state'[U1] \in BookingStates =>
            UNCHANGED <<stats, profile, customers, drinks, last_order, rate_limit>>]_vars

\* Two bookings were completed, the second after the staff group was bound.
C36_Witness ==
    /\ reply[U1].kind \in {"booked", "booked_closed"}
    /\ admin_inbox[DEFAULT_CAFE_ID] = 2
    /\ staff_inbox[DEFAULT_CAFE_ID] = 1
    /\ fsm_state[U1] = "none"
    /\ stats[DEFAULT_CAFE_ID] = NoStats

(***************************************************************************)
(* C37: the live menu                                                      *)
(***************************************************************************)
\* C37 as stated: once the admin has removed an item, the menu the next
\* operation reads does not have it, whatever the menu was.
C37_AsStated ==
    [][\A d \in Drinks :
          menu_pick_remove_item(Cafe1, d) => d \notin DOMAIN get_menu(Cafe1)']_vars

(***************************************************************************)
(* C38: the cart at the checkout steps                                     *)
(***************************************************************************)
GateTexts ==
    {"Latte", "1", BTN_CART, BTN_CLEAR_CART, BTN_CANCEL_ORDER, BTN_EDIT_CART,
     CART_ACT_PLUS, CART_ACT_MINUS, CART_ACT_DEL, BTN_CHECKOUT, BTN_CONFIRM,
     BTN_READY_NOW, BTN_REPEAT_LAST}

\* One customer, every handler that touches the cart and the whole checkout.
NextGate ==
    \/ \E t \in GateTexts :
          \/ any_text(U1, t)
          \/ process_quantity(U1, t, MaxFlowUnits)
          \/ cart_button(U1, t)
          \/ clear_cart(U1, t)
          \/ cancel_order(U1, t)
          \/ edit_cart(U1, t)
          \/ pick_item_to_edit(U1, t)
          \/ cart_edit_action(U1, t, MaxFlowUnits)
          \/ checkout(U1, t)
          \/ confirm_order(U1, t)
          \/ ready_time(U1, t)
          \/ repeat_last(U1, t, MaxFlowUnits)
    \/ hour_passes

SpecGate == Init /\ [][NextGate]_vars

CheckoutSteps == {"waiting_for_confirmation", "waiting_for_ready_time"}

CartEvents == {"process_quantity", "cart_edit_action", "clear_cart", "repeat_last"}

\* C38: every step of adding a quantity, +1, -1, remove, clear or repeat
\* that changes the cart leaves the conversation at the cart view or idle,
\* and no step at all changes the cart and ends at a checkout step; at the
\* confirmation and ready-time steps the cart is not empty and does not
\* change from one of these steps to the next; and finalize never answers
\* that the cart is empty.
C38_CartFixedAtCheckout ==
    /\ [][(Cart(U1)' # Cart(U1) /\ reply'[U1].h \in CartEvents) =>
            fsm_state'[U1] \in {"cart_view", "none"}]_vars
    /\ [][Cart(U1)' # Cart(U1) => fsm_state'[U1] \notin CheckoutSteps]_vars
    /\ [](fsm_state[U1] \in CheckoutSteps => Cart(U1) # EmptyDict)
    /\ [][(fsm_state[U1] \in CheckoutSteps /\ fsm_state'[U1] \in CheckoutSteps) =>
            Cart(U1)' = Cart(U1)]_vars
    /\ [](~(reply[U1].h = "finalize_order" /\ reply[U1].kind = "cart_empty"))

\* The ready-time step of a second order with a cart of two units, built by
\* more than one cart-changing step.
C38_Witness ==
    /\ fsm_state[U1] = "waiting_for_ready_time"
    /\ Cart(U1) = <<[k |-> "Latte", v |-> 2]>>
    /\ last_order[cafe_id_of(U1)][U1].present

(***************************************************************************)
(* C39: the counters agree                                                 *)
(***************************************************************************)
RECURSIVE SumOf(_, _)
SumOf(f, S) ==
    IF S = {}
    THEN 0
    ELSE LET x == CHOOSE y \in S : TRUE
         IN f[x] + SumOf(f, S \ {x})

ProfileOrders(c) == SumOf([u \in Users |-> profile[c][u].total_orders], Users)

ProfileSpent(c) == SumOf([u \in Users |-> profile[c][u].total_spent], Users)

ItemRevenue(c) == SumOf(stats[c].drink_rev, DOMAIN stats[c].drink_rev)

FinalizedTotals(c) == SumOf([t \in Tasks |-> task[t].total], Recorded(c))

\* C39: with several finalize tasks interleaved and no store failure, for
\* every cafe the order counter equals the number of finalizes that recorded
\* and the sum of the customers' profile order counts; the revenue counter
\* equals the sum of the recorded totals, of the per-item revenue counters
\* and of the customers' cumulative spend; and no counter ever decreases.
C39_CountersAgree ==
    /\ [](\A c \in CafeIds :
             /\ stats[c].total_orders = Cardinality(Recorded(c))
             /\ stats[c].total_orders = ProfileOrders(c)
             /\ stats[c].total_revenue = FinalizedTotals(c)
             /\ stats[c].total_revenue = ItemRevenue(c)
             /\ stats[c].total_revenue = ProfileSpent(c))
    /\ [][\A c \in CafeIds :
             /\ stats'[c].total_orders >= stats[c].total_orders
             /\ stats'[c].total_revenue >= stats[c].total_revenue
             /\ \A d \in DOMAIN stats[c].drink_rev :
                   /\ d \in DOMAIN stats'[c].drink_rev
                   /\ stats'[c].drink_rev[d] >= stats[c].drink_rev[d]
                   /\ FGet(stats'[c].drink_cnt, d, 0) >= FGet(stats[c].drink_cnt, d, 0)
             /\ \A u \in Users :
                   /\ profile'[c][u].total_orders >= profile[c][u].total_orders
                   /\ profile'[c][u].total_spent >= profile[c][u].total_spent]_vars

\* Two finalize tasks of one customer, run one into the other, both recorded:
\* two orders and the revenue of both.
C39_Witness ==
    /\ \A t \in Tasks : task[t].pc = "done" /\ task[t].outcome = "accepted"
    /\ stats[Cafe1].total_orders = 2
    /\ stats[Cafe1].total_revenue = task["t1"].total + task["t2"].total
    /\ profile[Cafe1][U1].total_spent = stats[Cafe1].total_revenue
    /\ stats[Cafe1].total_revenue > 0

(***************************************************************************)
(* C40: the binding of a user to a cafe                                    *)
(***************************************************************************)
Cafe2 == "cafe_2"

BindingTexts ==
    {"Latte", "1", BTN_CLEAR_CART, BTN_CHECKOUT, BTN_CONFIRM, BTN_READY_NOW, BTN_BOOKING}

\* One customer orders, books and starts sessions at either cafe while the
\* admin of cafe_1 changes the price of Latte, so that the two menus differ.
NextBinding ==
    \/ \E p \in Payloads : cmd_start(U1, p)
    \/ \E t \in BindingTexts :
          \/ any_text(U1, t)
          \/ process_quantity(U1, t, MaxFlowUnits)
          \/ clear_cart(U1, t)
          \/ checkout(U1, t)
          \/ confirm_order(U1, t)
          \/ ready_time(U1, t)
          \/ booking_start(U1, t)
    \/ \E p \in Prices : menu_edit_price(Cafe1, "Latte", p)

SpecBinding == Init /\ [][NextBinding]_vars

PricingHandlers == {"checkout", "confirm_order", "finalize_order"}

====
